---- MODULE Spec2Model ----
(***************************************************************************)
(* Ledger service for an in-game currency (src/app/routes/currencyMod.ts). *)
(* Every request handler is a process; each awaited storage round trip is  *)
(* one atomic step.  The store is PostgreSQL at READ COMMITTED: a          *)
(* transaction's writes are private row versions until COMMIT, row locks   *)
(* are held until COMMIT/ROLLBACK, and a statement that needs a locked row *)
(* waits and then reads the row's latest committed version.                *)
(* Instants are wall-clock seconds in the handler's time zone, counted     *)
(* from local midnight of day 0 (no zone transition in the modelled days). *)
(***************************************************************************)
EXTENDS Integers, Sequences, FiniteSets, TLC

\* ------------------------------------------------------------ bounds
NReq == 2
MaxDay == 1
NPay == 3
MaxAccounts == 12
MaxSeconds == 2

\* ------------------------------------------------------------ program constants
DAILY_REWARD_AMOUNT == 50
DefaultDenomination == 1000
TopLimit == 10
ResetHour == 6
ResetMinute == 30
SecondsPerMinute == 60
SecondsPerHour == 3600
SecondsPerDay == 86400

\* ------------------------------------------------------------ inputs
\* "a" and "b" have logged in before; "c" has no account until it logs in.
Uuids == {"a", "b", "c"}
Registered == {"a", "b"}
InitFunds == {[a |-> 1000, b |-> 0], [a |-> 1000, b |-> 1000]}
\* The requests clients send: who logs in, who pays whom, who deposits,
\* withdraws, claims and reads (each only once it holds a token).
Logins == {<<"a", "Alex">>, <<"c", "Cleo">>, <<"c", "">>}
Payments == {<<"a", "b">>, <<"b", "a">>, <<"a", "c">>, <<"a", "a">>}
Depositors == {"a", "b", "c"}
Withdrawers == {"a"}
Claimers == {"a"}
Readers == {"a"}
Markers == {"a", "b"}
\* The rows of user_funds in the order a scan of the table meets them.
TableOrder == <<"a", "b", "c", "d", "e", "f", "g", "h", "i", "j", "k", "l", "m", "n">>
\* Rows of equal balance come out of ORDER BY in either scan order.
TieOrders == {"forward", "backward"}
Amounts == {0, 1000}
Counts == {1}
\* The optional denomination of a withdrawal: absent, or a number.
Denominations == {{}, {-1000}}
\* The name every registered player gave at its first login.
FirstName == "Steve"
Req == 1 .. NReq
NoReq == 0
ResetSeconds == ResetHour * SecondsPerHour + ResetMinute * SecondsPerMinute
Instants == UNION {{d * SecondsPerDay + ResetSeconds + k : k \in {-1, 0, 1}} : d \in 0 .. MaxDay}
FirstInstant == ResetSeconds - 1
\* Instants across the local day: midnight, around the reset, noon and the
\* last second of the day.
TimesOfDay == {0, ResetSeconds - 1, ResetSeconds, ResetSeconds + 1, 12 * SecondsPerHour, SecondsPerDay - 1}
DayInstants == {d * SecondsPerDay + t : d \in 0 .. MaxDay, t \in TimesOfDay}
\* Instants of the minutes that follow the first reset, and the next reset.
Moments ==
  {ResetSeconds + k : k \in 1 .. MaxSeconds}
    \cup {ResetSeconds + SecondsPerMinute + 1, ResetSeconds + SecondsPerDay}

VARIABLES
  user_funds,            \* committed rows of user_funds: uuid -> balance
  daily_rewards,         \* committed rows of daily_rewards: uuid -> last_claim_at
  currency_transactions, \* the append-only transaction log
  rowLock,               \* user_funds row -> request whose transaction locks it
  claimLock,             \* daily_rewards key -> request whose transaction locks it
  tokens,                \* uuids for which login has issued a token
  clock,                 \* the current instant
  req,                   \* request -> its inputs
  pc,                    \* request -> the statement it runs next
  inTx,                  \* request -> its connection has a transaction open
  writes,                \* request -> uncommitted user_funds row versions
  claimWrite,            \* request -> uncommitted daily_rewards upsert
  local,                 \* request -> handler locals
  thrown,                \* request -> message of the error its try block threw
  resp,                  \* request -> response sent
  errorLog,              \* request -> logger.error calls made
  bal0,                  \* history: the balances at the start
  committed,             \* history: request -> its COMMIT was executed
  commitOrder,           \* history: the COMMITs executed, in order: request and instant
  appended,              \* history: request -> records it appended to the log
  priorClaim,            \* history: daily request -> the claim rows stored when it arrived
  overlapped,            \* history: daily request -> another claim of the account was in flight with it
  user_names,            \* column name of user_funds: uuid -> name
  mob_limit_reached,     \* committed rows of mob_limit_reached: uuid -> date_reached
  http                   \* request -> its Authorization header and the middleware that passed it on

vars == <<user_funds, daily_rewards, currency_transactions, rowLock, claimLock, tokens, clock,
          req, pc, inTx, writes, claimWrite, local, thrown, resp, errorLog,
          bal0, committed, commitOrder, appended, priorClaim, overlapped, user_names, mob_limit_reached, http>>


\* ------------------------------------------------------------ records
NoRequest == [kind |-> "none", uuid |-> "", to |-> "", amount |-> 0,
              count |-> 0, denom |-> 0, now |-> 0]
NoLocal == [balance |-> 0, newBalance |-> 0, lastReset |-> 0]
NoResp == [status |-> 0, error |-> "", balance |-> 0, limitReached |-> FALSE, top |-> <<>>,
           wait |-> <<>>]
EmptyWrites == [u \in {} |-> 0]
NoHttp == [authorization |-> <<>>, passed |-> <<>>, handler |-> ""]

Request(kind, uuid, to, amount, count, denom, now) ==
  [kind |-> kind, uuid |-> uuid, to |-> to, amount |-> amount,
   count |-> count, denom |-> denom, now |-> now]

Ok(balance) == [NoResp EXCEPT !.status = 200, !.balance = balance]
Fail(status, error) == [NoResp EXCEPT !.status = status, !.error = error]
LimitReached(limitReached) == [NoResp EXCEPT !.status = 200, !.limitReached = limitReached]
Ranking(top) == [NoResp EXCEPT !.status = 200, !.top = top]
\* 429 with "Next reset in ${hours}h ${minutes}m."
RateLimited(wait) ==
  [NoResp EXCEPT !.status = 429, !.error = "You already claimed your daily reward.", !.wait = wait]

\* ------------------------------------------------------------ router
\* A JWT: the uuid it carries, who signed it, and whether its ten minutes
\* have passed.  jwt.verify accepts a token signed with the service's
\* secret that has not expired.
Jwt(uuid, signer, expired) == [uuid |-> uuid, signer |-> signer, expired |-> expired]
LoginToken(uuid) == Jwt(uuid, "login", FALSE)
jwtVerify(token) == token.signer = "login" /\ ~token.expired

\* The Authorization header as its words (authHeader.split(" ")); <<>> when
\* the header is absent.
Bearer(token) == <<"Bearer", token>>

\* What a middleware does with a request: it calls next(), or it responds.
CallsNext(user) == [next |-> TRUE, user |-> user, response |-> NoResp]
Responds(response) == [next |-> FALSE, user |-> "", response |-> response]

verifyJWT(request, user) ==
  LET authHeader == request.authorization IN
    IF authHeader = <<>> THEN Responds(Fail(401, "Missing Authorization header"))
    ELSE IF Len(authHeader) < 2 THEN Responds(Fail(401, "Invalid Authorization format"))
    ELSE IF jwtVerify(authHeader[2]) THEN CallsNext(authHeader[2].uuid)
    ELSE Responds(Fail(403, "Invalid or expired token"))

\* An address as it is written: the IP, with or without the "::ffff:" prefix.
Address(ip, mapped) == [ip |-> ip, mapped |-> mapped]
ALLOWED_IP_ADDRESS == "game server"
ALLOWED_IP_ADDRESS_LOCAL == "loopback"
OtherAddress == "elsewhere"

\* rawIp.replace("::ffff:", ""): the first prefix in the text is removed.
StripPrefix(rawIp) ==
  LET mappedAt == {i \in DOMAIN rawIp : rawIp[i].mapped} IN
    IF mappedAt = {} THEN rawIp
    ELSE [rawIp EXCEPT ![CHOOSE i \in mappedAt : \A j \in mappedAt : i <= j].mapped = FALSE]

\* .split(",")[0].trim()
normalizedIp(rawIp) == IF rawIp = <<>> THEN Address("", FALSE) ELSE Head(StripPrefix(rawIp))

verifyIP(request, user) ==
  LET rawIp == IF request.forwarded # <<>> THEN request.forwarded ELSE <<request.remoteAddress>>
      allowed == {Address(ALLOWED_IP_ADDRESS, FALSE), Address(ALLOWED_IP_ADDRESS_LOCAL, FALSE)} IN
    IF normalizedIp(rawIp) \in allowed THEN CallsNext(user)
    ELSE Responds(Fail(403, "Forbidden: Your IP is not allowed."))

\* The router's layers in the order currencyRoutes registers them.
RouteLayer(method, path, name) == [kind |-> "route", method |-> method, path |-> path, name |-> name]
UseLayer(path, name) == [kind |-> "use", method |-> "", path |-> path, name |-> name]

Handlers ==
  <<RouteLayer("GET", <<"currency", "balance">>, "balance"),
    RouteLayer("POST", <<"currency", "pay">>, "pay"),
    RouteLayer("POST", <<"currency", "deposit">>, "deposit"),
    RouteLayer("POST", <<"currency", "withdraw">>, "withdraw"),
    RouteLayer("GET", <<"currency", "top">>, "top"),
    RouteLayer("POST", <<"currency", "mob-limit">>, "mobLimitMark"),
    RouteLayer("GET", <<"currency", "mob-limit">>, "mobLimitCheck"),
    RouteLayer("POST", <<"currency", "daily">>, "daily")>>

LoginRoute == RouteLayer("POST", <<"currency", "login">>, "login")

UngatedStack ==
  <<LoginRoute>> \o Handlers \o
  <<UseLayer(<<"currency">>, "verifyJWT"), UseLayer(<<"currency">>, "verifyIP")>>
Stack ==
  <<LoginRoute, UseLayer(<<"currency">>, "verifyJWT"), UseLayer(<<"currency">>, "verifyIP")>>
  \o Handlers

\* router.use(path, fn) matches every path under `path`; a route matches its
\* method and its whole path.
Matches(layer, request) ==
  IF layer.kind = "use"
  THEN /\ Len(layer.path) <= Len(request.path)
       /\ SubSeq(request.path, 1, Len(layer.path)) = layer.path
  ELSE layer.method = request.method /\ layer.path = request.path

Run(name, request, user) ==
  IF name = "verifyJWT" THEN verifyJWT(request, user) ELSE verifyIP(request, user)

\* The request goes down the stack: a middleware that matches either calls
\* next() or responds; the first route that matches is the handler invoked.
RECURSIVE Walk(_, _, _, _)
Walk(request, i, passed, user) ==
  IF i > Len(Stack)
  THEN [handler |-> "", user |-> user, passed |-> passed, response |-> Fail(404, "Not Found")]
  ELSE LET layer == Stack[i] IN
    IF ~Matches(layer, request) THEN Walk(request, i + 1, passed, user)
    ELSE IF layer.kind = "route"
    THEN [handler |-> layer.name, user |-> user, passed |-> passed, response |-> NoResp]
    ELSE LET result == Run(layer.name, request, user) IN
      IF result.next THEN Walk(request, i + 1, Append(passed, layer.name), result.user)
      ELSE [handler |-> "", user |-> user, passed |-> passed, response |-> result.response]

Dispatch(request) == Walk(request, 1, <<>>, "")

\* The requests clients send: every endpoint of the router and one path it
\* does not serve, with any Authorization header, from any address.
Jwts == {LoginToken(u) : u \in Uuids} \cup {Jwt("a", "login", TRUE), Jwt("a", "forger", FALSE)}
AuthorizationHeaders == {<<>>, <<"Bearer">>} \cup {Bearer(t) : t \in Jwts}
Forwardeds ==
  {<<>>, <<Address(ALLOWED_IP_ADDRESS, FALSE)>>,
   <<Address(OtherAddress, FALSE), Address(ALLOWED_IP_ADDRESS, TRUE)>>}
RemoteAddresses == {Address(ALLOWED_IP_ADDRESS_LOCAL, TRUE), Address(OtherAddress, FALSE)}
Endpoints ==
  {<<LoginRoute.method, LoginRoute.path>>, <<"GET", <<"currency", "unknown">>>>}
  \cup {<<Handlers[i].method, Handlers[i].path>> : i \in DOMAIN Handlers}
HttpRequests ==
  {[method |-> e[1], path |-> e[2], authorization |-> h, forwarded |-> f, remoteAddress |-> a] :
     e \in Endpoints, h \in AuthorizationHeaders, f \in Forwardeds, a \in RemoteAddresses}

\* Where the router takes each request.
HandlerNames == {LoginRoute.name} \cup {Handlers[i].name : i \in DOMAIN Handlers}
Routes == {<<request, Dispatch(request)>> : request \in HttpRequests}
AdmittedTo == {<<name, {route : route \in {x \in Routes : x[2].handler = name}}>> : name \in HandlerNames}
Admitted(name) == (CHOOSE entry \in AdmittedTo : entry[1] = name)[2]
Refused == {route : route \in {x \in Routes : x[2].handler = ""}}

\* The route a request is addressed to.
RouteName(request) ==
  LET routes == {i \in DOMAIN Handlers : Handlers[i].kind = "route" /\ Matches(Handlers[i], request)} IN
    IF Matches(LoginRoute, request) THEN LoginRoute.name
    ELSE IF routes = {} THEN "unrouted"
    ELSE Handlers[CHOOSE i \in routes : TRUE].name

\* ------------------------------------------------------------ store
\* The value a statement of request r reads in row u: its own uncommitted
\* version if it wrote one, else the committed row.
Cur(r, u) == IF u \in DOMAIN writes[r] THEN writes[r][u] ELSE user_funds[u]

\* A statement that locks row u can proceed.
CanLock(r, u) == rowLock[u] \in {NoReq, r}

\* SELECT ... FOR UPDATE takes the row lock; a plain SELECT would not.
PlainSelectLocks(r, u) == rowLock
SelectForUpdateLocks(r, u) == [rowLock EXCEPT ![u] = r]

\* UPDATE ... SET balance = balance + $1
AbsoluteCredit(current, amount) == amount
Credit(current, amount) == current + amount

\* UPDATE ... SET balance = balance - $1
Debit(current, amount) == current - amount

\* COMMIT installs the transaction's row versions.
CommittedFunds(r) ==
  [u \in DOMAIN user_funds |-> IF u \in DOMAIN writes[r] THEN writes[r][u] ELSE user_funds[u]]

CommittedRewards(r) ==
  IF claimWrite[r] = {} THEN daily_rewards
  ELSE [u \in DOMAIN daily_rewards \cup {req[r].uuid} |->
          IF u = req[r].uuid THEN CHOOSE t \in claimWrite[r] : TRUE ELSE daily_rewards[u]]

ReleasedLocks(r, locks) == [u \in Uuids |-> IF locks[u] = r THEN NoReq ELSE locks[u]]

\* client.query("COMMIT")
Commit(r) ==
  /\ user_funds' = CommittedFunds(r)
  /\ daily_rewards' = CommittedRewards(r)
  /\ rowLock' = ReleasedLocks(r, rowLock)
  /\ claimLock' = ReleasedLocks(r, claimLock)
  /\ writes' = [writes EXCEPT ![r] = EmptyWrites]
  /\ claimWrite' = [claimWrite EXCEPT ![r] = {}]
  /\ inTx' = [inTx EXCEPT ![r] = FALSE]
  /\ committed' = [committed EXCEPT ![r] = TRUE]
  /\ commitOrder' = Append(commitOrder, [request |-> r, instant |-> clock])

\* client.query("ROLLBACK"): drops the open transaction's row versions and
\* locks; outside a transaction it changes nothing.
Rollback(r) ==
  /\ rowLock' = ReleasedLocks(r, rowLock)
  /\ claimLock' = ReleasedLocks(r, claimLock)
  /\ writes' = [writes EXCEPT ![r] = EmptyWrites]
  /\ claimWrite' = [claimWrite EXCEPT ![r] = {}]
  /\ inTx' = [inTx EXCEPT ![r] = FALSE]
  /\ UNCHANGED <<user_funds, daily_rewards,
                 user_names, mob_limit_reached, http>>

\* logTransactions: one INSERT on a pool connection of its own.
TransactionData(uuid, action, amount, from_uuid, to_uuid, denomination, count, balance_after) ==
  [uuid |-> uuid, action |-> action, amount |-> amount, from_uuid |-> from_uuid,
   to_uuid |-> to_uuid, denomination |-> denomination, count |-> count,
   balance_after |-> balance_after]


\* ------------------------------------------------------------ control
\* The statement each handler awaits after the one at `at` returns normally.
LogBeforeCommit(kind, at) ==
  CASE kind = "pay" /\ at = "begin" -> "select"
    [] kind = "pay" /\ at = "select" -> "debit"
    [] kind = "pay" /\ at = "debit" -> "credit"
    [] kind = "pay" /\ at = "credit" -> "log"
    [] kind = "deposit" /\ at = "begin" -> "update"
    [] kind = "deposit" /\ at = "update" -> "log"
    [] kind = "withdraw" /\ at = "begin" -> "select"
    [] kind = "withdraw" /\ at = "select" -> "update"
    [] kind = "withdraw" /\ at = "update" -> "log"
    [] kind = "daily" /\ at = "begin" -> "selectUser"
    [] kind = "daily" /\ at = "selectUser" -> "selectReward"
    [] kind = "daily" /\ at = "selectReward" -> "credit"
    [] kind = "daily" /\ at = "credit" -> "upsert"
    [] kind = "daily" /\ at = "upsert" -> "commit"
    [] at = "log" -> "commit"
    [] OTHER -> "done"

\* The daily handler testing eligibility only after its COMMIT.
CommitBeforeCheck(kind, at) ==
  CASE kind = "daily" /\ at = "begin" -> "selectUser"
    [] kind = "daily" /\ at = "selectUser" -> "credit"
    [] kind = "daily" /\ at = "credit" -> "upsert"
    [] kind = "daily" /\ at = "upsert" -> "commit"
    [] kind = "daily" /\ at = "commit" -> "selectReward"
    [] kind = "pay" /\ at = "begin" -> "select"
    [] kind = "pay" /\ at = "select" -> "debit"
    [] kind = "pay" /\ at = "debit" -> "credit"
    [] kind = "pay" /\ at = "credit" -> "commit"
    [] kind = "deposit" /\ at = "begin" -> "update"
    [] kind = "deposit" /\ at = "update" -> "commit"
    [] kind = "withdraw" /\ at = "begin" -> "select"
    [] kind = "withdraw" /\ at = "select" -> "update"
    [] kind = "withdraw" /\ at = "update" -> "commit"
    [] kind # "daily" /\ at = "commit" -> "log"
    [] OTHER -> "done"

NextPc(kind, at) ==
  CASE kind = "pay" /\ at = "begin" -> "select"
    [] kind = "pay" /\ at = "select" -> "debit"
    [] kind = "pay" /\ at = "debit" -> "credit"
    [] kind = "pay" /\ at = "credit" -> "commit"
    [] kind = "pay" /\ at = "commit" -> "log"
    [] kind = "deposit" /\ at = "begin" -> "update"
    [] kind = "deposit" /\ at = "update" -> "commit"
    [] kind = "deposit" /\ at = "commit" -> "log"
    [] kind = "withdraw" /\ at = "begin" -> "select"
    [] kind = "withdraw" /\ at = "select" -> "update"
    [] kind = "withdraw" /\ at = "update" -> "commit"
    [] kind = "withdraw" /\ at = "commit" -> "log"
    [] kind = "daily" /\ at = "begin" -> "selectUser"
    [] kind = "daily" /\ at = "selectUser" -> "selectReward"
    [] kind = "daily" /\ at = "selectReward" -> "credit"
    [] kind = "daily" /\ at = "credit" -> "upsert"
    [] kind = "daily" /\ at = "upsert" -> "commit"
    [] OTHER -> "done"

Active(r) == pc[r] \notin {"idle", "done"}

\* Requests are taken in the order of their indices.
MayStart(r) == pc[r] = "idle" /\ (IF r = 1 THEN TRUE ELSE pc[r - 1] # "idle")

\* The handler goes on to its next statement; res.json(...) and the finally
\* block's client.release() follow the last one.
Goto(r, at, response) ==
  /\ pc' = [pc EXCEPT ![r] = NextPc(req[r].kind, at)]
  /\ resp' = [resp EXCEPT ![r] = IF NextPc(req[r].kind, at) = "done" THEN response ELSE @]
  /\ UNCHANGED thrown

\* throw new Error(message), or a rejected query: control passes to catch.
Throw(r, message) ==
  /\ pc' = [pc EXCEPT ![r] = "catch"]
  /\ thrown' = [thrown EXCEPT ![r] = message]
  /\ UNCHANGED resp

\* The request a transaction waits for: the holder of the row lock that its
\* next statement needs.
NeededRow(r) ==
  CASE pc[r] = "select" \/ pc[r] = "debit" \/ pc[r] = "update" \/ pc[r] = "selectUser" -> {req[r].uuid}
    [] pc[r] = "credit" /\ req[r].kind = "pay" -> {req[r].to}
    [] pc[r] = "credit" /\ req[r].kind = "daily" -> {req[r].uuid}
    [] OTHER -> {}

WaitsFor(r) ==
  {rowLock[u] : u \in {x \in NeededRow(r) \cap DOMAIN user_funds : ~CanLock(r, x)}}

RECURSIVE Blockers(_, _)
Blockers(rs, n) ==
  IF n = 0 THEN rs
  ELSE Blockers(rs \cup UNION {WaitsFor(x) : x \in rs}, n - 1)

\* r is in a cycle of transactions each waiting for a lock of the next.
Deadlocked(r) == r \in Blockers(WaitsFor(r), Cardinality(DOMAIN pc))


\* ------------------------------------------------------------ shared statements
\* Rows an UPDATE ... WHERE uuid = u affects, or a SELECT ... WHERE uuid = u returns.
RowCount(u) == IF u \in DOMAIN user_funds THEN 1 ELSE 0

\* if (result.rowCount === 0) / if (rows.length === 0)
NeverNotFound(rowCount) == FALSE
NotFound(rowCount) == rowCount = 0

\* if (senderBalance < amount) / if (currentBalance < amount)
InsufficientOrEqual(balance, amount) == balance <= amount
InsufficientFunds(balance, amount) == balance < amount

\* A plain SELECT reads the committed row.
ReadCommitted(u) == user_funds[u]

Written(r, u, value) == [writes EXCEPT ![r] = (u :> value) @@ @]

LogError == "log append failed"
DeadlockError == "deadlock detected"

\* await logTransactions(db, data): the INSERT commits on its own, or is rejected.
LogAppend(r, at, data, response) ==
  \E inserted \in BOOLEAN :
    IF inserted
    THEN /\ currency_transactions' = Append(currency_transactions, data)
         /\ appended' = [appended EXCEPT ![r] = @ + 1]
         /\ Goto(r, at, response)
    ELSE /\ Throw(r, LogError)
         /\ UNCHANGED <<currency_transactions, appended>>

\* catch (error) { ROLLBACK; logger.error(...); res.status(status).json(...) } finally { release }
Catch(r, response) ==
  /\ Rollback(r)
  /\ errorLog' = [errorLog EXCEPT ![r] = @ + 1]
  /\ resp' = [resp EXCEPT ![r] = response]
  /\ pc' = [pc EXCEPT ![r] = "done"]

\* A transaction block begins on a connection taken from the pool.
Begin(r, request) ==
  /\ req' = [req EXCEPT ![r] = request]
  /\ inTx' = [inTx EXCEPT ![r] = TRUE]
  /\ pc' = [pc EXCEPT ![r] = NextPc(request.kind, "begin")]

\* A client holds a token signed by login only if login issued it one.
Presentable(authorization) ==
  Len(authorization) >= 2 /\ authorization[2].signer = "login" => authorization[2].uuid \in tokens

\* The router takes request r down its route: to a handler, or to the
\* response of a middleware.
Routed(r, route) ==
  /\ Presentable(route[1].authorization)
  /\ http' = [http EXCEPT ![r] = [authorization |-> route[1].authorization,
                                  passed |-> route[2].passed,
                                  handler |-> route[2].handler]]

\* req.user?.uuid
User(route) == route[2].user

\* INSERT INTO user_funds (uuid, name, balance) VALUES ($1, $2, 0)
\* ON CONFLICT (uuid) DO UPDATE SET name = EXCLUDED.name
UpdateOnly(funds, uuid) == funds
ResetFunds(funds, uuid) == (uuid :> 0) @@ funds
UpsertFunds(funds, uuid) == IF uuid \in DOMAIN funds THEN funds ELSE (uuid :> 0) @@ funds
UpsertName(names, uuid, name) == (uuid :> name) @@ names

\* The handler answers without opening a transaction.
Reject(r, request, response) ==
  /\ req' = [req EXCEPT ![r] = request]
  /\ resp' = [resp EXCEPT ![r] = response]
  /\ pc' = [pc EXCEPT ![r] = "done"]

\* ------------------------------------------------------------ POST /currency/login
Login(r) ==
  /\ MayStart(r)
  /\ \E route \in Admitted("login"), login \in Logins :
       LET uuid == login[1]
           name == login[2] IN
         /\ route[1].authorization = <<>>
         /\ Routed(r, route)
         /\ IF uuid = "" \/ name = ""
            THEN /\ Reject(r, Request("login", uuid, "", 0, 0, 0, 0), Fail(400, "Missing uuid or name"))
                 /\ UNCHANGED <<user_funds, user_names, tokens>>
            ELSE /\ uuid \in DOMAIN user_funds => CanLock(r, uuid)
                 /\ user_funds' = UpsertFunds(user_funds, uuid)
                 /\ user_names' = UpsertName(user_names, uuid, name)
                 /\ tokens' = tokens \cup {uuid}
                 /\ Reject(r, Request("login", uuid, "", 0, 0, 0, 0), Ok(0))
  /\ UNCHANGED <<daily_rewards, currency_transactions, rowLock, claimLock, clock, inTx,
                 writes, claimWrite, local, thrown, errorLog, bal0, priorClaim, overlapped, committed, commitOrder, appended,
                 mob_limit_reached>>

\* ------------------------------------------------------------ GET /currency/balance
Balance(r) ==
  /\ MayStart(r)
  /\ \E route \in Admitted("balance") :
       LET uuid == User(route) IN
         /\ Routed(r, route)
         /\ uuid \in Readers \cup {""}
         /\ Reject(r, Request("balance", uuid, "", 0, 0, 0, 0),
                   IF uuid = "" THEN Fail(400, "Missing uuid")
                   ELSE IF NotFound(RowCount(uuid)) THEN Fail(404, "Player not found")
                   ELSE Ok(ReadCommitted(uuid)))
  /\ UNCHANGED <<user_funds, daily_rewards, currency_transactions, rowLock, claimLock, tokens,
                 clock, inTx, writes, claimWrite, local, thrown, errorLog, bal0, priorClaim, overlapped, committed, commitOrder,
                 appended, user_names, mob_limit_reached>>

\* ------------------------------------------------------------ POST /currency/pay
PayBeginWith(r, route, to_uuid, amount) ==
  /\ Routed(r, route)
  /\ LET from_uuid == User(route)
         payment == Request("pay", from_uuid, to_uuid, amount, 0, 0, 0) IN
       IF from_uuid = "" \/ to_uuid = ""
       THEN /\ Reject(r, payment, Fail(400, "Invalid input"))
            /\ UNCHANGED inTx
       ELSE IF amount <= 0
       THEN /\ Reject(r, payment, Fail(400, "Amount must be positive"))
            /\ UNCHANGED inTx
       ELSE /\ Begin(r, payment)
            /\ UNCHANGED resp
  /\ UNCHANGED <<user_funds, daily_rewards, currency_transactions, rowLock, claimLock, tokens,
                 clock, writes, claimWrite, local, thrown, errorLog, bal0, priorClaim, overlapped, committed, commitOrder, appended,
                 user_names, mob_limit_reached>>

PayBegin(r) ==
  /\ MayStart(r)
  /\ \E route \in Admitted("pay"), payment \in Payments, amount \in Amounts :
       /\ User(route) \in {payment[1], ""}
       /\ PayBeginWith(r, route, payment[2], amount)

PaySelect(r) ==
  /\ pc[r] = "select" /\ req[r].kind = "pay"
  /\ LET from_uuid == req[r].uuid
         amount == req[r].amount IN
       IF NotFound(RowCount(from_uuid))
       THEN /\ Throw(r, "Sender not found")
            /\ UNCHANGED <<rowLock, local>>
       ELSE /\ CanLock(r, from_uuid)
            /\ rowLock' = SelectForUpdateLocks(r, from_uuid)
            /\ LET senderBalance == Cur(r, from_uuid) IN
                 /\ local' = [local EXCEPT ![r].balance = senderBalance,
                                           ![r].newBalance = senderBalance - amount]
                 /\ IF InsufficientFunds(senderBalance, amount)
                    THEN Throw(r, "Insufficient funds")
                    ELSE Goto(r, "select", resp[r])
  /\ UNCHANGED <<user_funds, daily_rewards, currency_transactions, claimLock, tokens, clock,
                 req, inTx, writes, claimWrite, errorLog, bal0, priorClaim, overlapped, committed, commitOrder, appended,
                 user_names, mob_limit_reached, http>>

PayDebit(r) ==
  /\ pc[r] = "debit" /\ req[r].kind = "pay"
  /\ CanLock(r, req[r].uuid)
  /\ rowLock' = [rowLock EXCEPT ![req[r].uuid] = r]
  /\ writes' = Written(r, req[r].uuid, Debit(Cur(r, req[r].uuid), req[r].amount))
  /\ Goto(r, "debit", resp[r])
  /\ UNCHANGED <<user_funds, daily_rewards, currency_transactions, claimLock, tokens, clock,
                 req, inTx, claimWrite, local, errorLog, bal0, priorClaim, overlapped, committed, commitOrder, appended,
                 user_names, mob_limit_reached, http>>

PayCredit(r) ==
  /\ pc[r] = "credit" /\ req[r].kind = "pay"
  /\ LET to_uuid == req[r].to
         rowCount == RowCount(to_uuid) IN
       /\ IF rowCount = 0
          THEN UNCHANGED <<rowLock, writes>>
          ELSE /\ CanLock(r, to_uuid)
               /\ rowLock' = [rowLock EXCEPT ![to_uuid] = r]
               /\ writes' = Written(r, to_uuid, Credit(Cur(r, to_uuid), req[r].amount))
       /\ IF NotFound(rowCount)
          THEN Throw(r, "Recipient not found")
          ELSE Goto(r, "credit", resp[r])
  /\ UNCHANGED <<user_funds, daily_rewards, currency_transactions, claimLock, tokens, clock,
                 req, inTx, claimWrite, local, errorLog, bal0, priorClaim, overlapped, committed, commitOrder, appended,
                 user_names, mob_limit_reached, http>>

\* The store ends a lock cycle by failing one waiting statement; the failed
\* transaction's row versions and locks are dropped at once, its block stays
\* open until ROLLBACK.
PayDeadlock(r) ==
  /\ pc[r] = "credit" /\ req[r].kind = "pay"
  /\ Deadlocked(r)
  /\ rowLock' = ReleasedLocks(r, rowLock)
  /\ writes' = [writes EXCEPT ![r] = EmptyWrites]
  /\ Throw(r, DeadlockError)
  /\ UNCHANGED <<user_funds, daily_rewards, currency_transactions, claimLock, tokens, clock,
                 req, inTx, claimWrite, local, errorLog, bal0, priorClaim, overlapped, committed, commitOrder, appended,
                 user_names, mob_limit_reached, http>>

PayCommit(r) ==
  /\ pc[r] = "commit" /\ req[r].kind = "pay"
  /\ Commit(r)
  /\ Goto(r, "commit", Ok(local[r].newBalance))
  /\ UNCHANGED <<currency_transactions, tokens, clock, req, local, errorLog, bal0, priorClaim, overlapped, appended,
                 user_names, mob_limit_reached, http>>

PayLog(r) ==
  /\ pc[r] = "log" /\ req[r].kind = "pay"
  /\ LogAppend(r, "log",
               TransactionData(req[r].uuid, "pay", req[r].amount, req[r].uuid, req[r].to,
                               {}, {}, local[r].newBalance),
               Ok(local[r].newBalance))
  /\ UNCHANGED <<user_funds, daily_rewards, rowLock, claimLock, tokens, clock, req, inTx,
                 writes, claimWrite, local, errorLog, bal0, priorClaim, overlapped, committed, commitOrder,
                 user_names, mob_limit_reached, http>>

PayCatch(r) ==
  /\ pc[r] = "catch" /\ req[r].kind = "pay"
  /\ Catch(r, Fail(400, thrown[r]))
  /\ UNCHANGED <<currency_transactions, tokens, clock, req, local, thrown, bal0, priorClaim, overlapped, committed, commitOrder,
                 appended,
                 user_names, mob_limit_reached, http>>


\* ------------------------------------------------------------ POST /currency/deposit
DepositBegin(r) ==
  /\ MayStart(r)
  /\ \E route \in Admitted("deposit"), amount \in Amounts :
       LET uuid == User(route)
           deposit == Request("deposit", uuid, "", amount, 0, 0, 0) IN
         /\ Routed(r, route)
         /\ uuid \in Depositors \cup {""}
         /\ IF uuid = "" \/ amount <= 0
            THEN /\ Reject(r, deposit, Fail(400, "Invalid input"))
                 /\ UNCHANGED inTx
            ELSE /\ Begin(r, deposit)
                 /\ UNCHANGED resp
  /\ UNCHANGED <<user_funds, daily_rewards, currency_transactions, rowLock, claimLock, tokens,
                 clock, writes, claimWrite, local, thrown, errorLog, bal0, priorClaim, overlapped, committed, commitOrder, appended,
                 user_names, mob_limit_reached>>

\* UPDATE ... RETURNING balance.  With no row the handler answers 404 and
\* returns: the finally block releases the connection, no COMMIT or ROLLBACK
\* is sent.
DepositUpdate(r) ==
  /\ pc[r] = "update" /\ req[r].kind = "deposit"
  /\ LET uuid == req[r].uuid
         rowCount == RowCount(uuid) IN
       IF rowCount = 0
       THEN /\ IF NotFound(rowCount)
               THEN /\ pc' = [pc EXCEPT ![r] = "done"]
                    /\ resp' = [resp EXCEPT ![r] = Fail(404, "User not found")]
                    /\ UNCHANGED thrown
               ELSE Throw(r, "TypeError")
            /\ UNCHANGED <<rowLock, writes, local>>
       ELSE /\ CanLock(r, uuid)
            /\ rowLock' = [rowLock EXCEPT ![uuid] = r]
            /\ LET newBalance == Credit(Cur(r, uuid), req[r].amount) IN
                 /\ writes' = Written(r, uuid, newBalance)
                 /\ local' = [local EXCEPT ![r].newBalance = newBalance]
            /\ Goto(r, "update", resp[r])
  /\ UNCHANGED <<user_funds, daily_rewards, currency_transactions, claimLock, tokens, clock,
                 req, inTx, claimWrite, errorLog, bal0, priorClaim, overlapped, committed, commitOrder, appended,
                 user_names, mob_limit_reached, http>>

DepositCommit(r) ==
  /\ pc[r] = "commit" /\ req[r].kind = "deposit"
  /\ Commit(r)
  /\ Goto(r, "commit", Ok(local[r].newBalance))
  /\ UNCHANGED <<currency_transactions, tokens, clock, req, local, errorLog, bal0, priorClaim, overlapped, appended,
                 user_names, mob_limit_reached, http>>

DepositLog(r) ==
  /\ pc[r] = "log" /\ req[r].kind = "deposit"
  /\ LogAppend(r, "log",
               TransactionData(req[r].uuid, "deposit", req[r].amount, "", "", {}, {},
                               local[r].newBalance),
               Ok(local[r].newBalance))
  /\ UNCHANGED <<user_funds, daily_rewards, rowLock, claimLock, tokens, clock, req, inTx,
                 writes, claimWrite, local, errorLog, bal0, priorClaim, overlapped, committed, commitOrder,
                 user_names, mob_limit_reached, http>>

DepositCatch(r) ==
  /\ pc[r] = "catch" /\ req[r].kind = "deposit"
  /\ Catch(r, Fail(400, thrown[r]))
  /\ UNCHANGED <<currency_transactions, tokens, clock, req, local, thrown, bal0, priorClaim, overlapped, committed, commitOrder,
                 appended,
                 user_names, mob_limit_reached, http>>

\* ------------------------------------------------------------ POST /currency/withdraw
WithdrawBegin(r) ==
  /\ MayStart(r)
  /\ \E route \in Admitted("withdraw"), count \in Counts, denomination \in Denominations :
       LET uuid == User(route)
           denom == IF denomination = {} THEN DefaultDenomination
                    ELSE CHOOSE d \in denomination : TRUE
           amount == count * denom
           withdrawal == Request("withdraw", uuid, "", amount, count, denom, 0) IN
         /\ Routed(r, route)
         /\ uuid \in Withdrawers \cup {""}
         /\ IF uuid = "" \/ count <= 0
            THEN /\ Reject(r, withdrawal, Fail(400, "Invalid count or uuid"))
                 /\ UNCHANGED inTx
            ELSE /\ Begin(r, withdrawal)
                 /\ UNCHANGED resp
  /\ UNCHANGED <<user_funds, daily_rewards, currency_transactions, rowLock, claimLock, tokens,
                 clock, writes, claimWrite, local, thrown, errorLog, bal0, priorClaim, overlapped, committed, commitOrder, appended,
                 user_names, mob_limit_reached>>

WithdrawSelect(r) ==
  /\ pc[r] = "select" /\ req[r].kind = "withdraw"
  /\ LET uuid == req[r].uuid IN
       IF NotFound(RowCount(uuid))
       THEN /\ Throw(r, "User not found")
            /\ UNCHANGED <<rowLock, local>>
       ELSE /\ CanLock(r, uuid)
            /\ rowLock' = SelectForUpdateLocks(r, uuid)
            /\ LET currentBalance == Cur(r, uuid) IN
                 /\ local' = [local EXCEPT ![r].balance = currentBalance]
                 /\ IF InsufficientFunds(currentBalance, req[r].amount)
                    THEN Throw(r, "Insufficient funds")
                    ELSE Goto(r, "select", resp[r])
  /\ UNCHANGED <<user_funds, daily_rewards, currency_transactions, claimLock, tokens, clock,
                 req, inTx, writes, claimWrite, errorLog, bal0, priorClaim, overlapped, committed, commitOrder, appended,
                 user_names, mob_limit_reached, http>>

WithdrawUpdate(r) ==
  /\ pc[r] = "update" /\ req[r].kind = "withdraw"
  /\ CanLock(r, req[r].uuid)
  /\ rowLock' = [rowLock EXCEPT ![req[r].uuid] = r]
  /\ LET newBalance == Debit(Cur(r, req[r].uuid), req[r].amount) IN
       /\ writes' = Written(r, req[r].uuid, newBalance)
       /\ local' = [local EXCEPT ![r].newBalance = newBalance]
  /\ Goto(r, "update", resp[r])
  /\ UNCHANGED <<user_funds, daily_rewards, currency_transactions, claimLock, tokens, clock,
                 req, inTx, claimWrite, errorLog, bal0, priorClaim, overlapped, committed, commitOrder, appended,
                 user_names, mob_limit_reached, http>>

WithdrawCommit(r) ==
  /\ pc[r] = "commit" /\ req[r].kind = "withdraw"
  /\ Commit(r)
  /\ Goto(r, "commit", Ok(local[r].newBalance))
  /\ UNCHANGED <<currency_transactions, tokens, clock, req, local, errorLog, bal0, priorClaim, overlapped, appended,
                 user_names, mob_limit_reached, http>>

WithdrawLog(r) ==
  /\ pc[r] = "log" /\ req[r].kind = "withdraw"
  /\ LogAppend(r, "log",
               TransactionData(req[r].uuid, "withdraw", req[r].amount, "", "",
                               {req[r].denom}, {req[r].count}, local[r].newBalance),
               Ok(local[r].newBalance))
  /\ UNCHANGED <<user_funds, daily_rewards, rowLock, claimLock, tokens, clock, req, inTx,
                 writes, claimWrite, local, errorLog, bal0, priorClaim, overlapped, committed, commitOrder,
                 user_names, mob_limit_reached, http>>

WithdrawCatch(r) ==
  /\ pc[r] = "catch" /\ req[r].kind = "withdraw"
  /\ Catch(r, Fail(400, thrown[r]))
  /\ UNCHANGED <<currency_transactions, tokens, clock, req, local, thrown, bal0, priorClaim, overlapped, committed, commitOrder,
                 appended,
                 user_names, mob_limit_reached, http>>

\* ------------------------------------------------------------ POST /currency/daily
StartOfDay(instant) == instant - (instant % SecondsPerDay)

\* current.set({hour: 6, minute: 30, second: 0, millisecond: 0}), a day
\* earlier when that is still ahead of current.
TodaysReset(current) == StartOfDay(current) + ResetSeconds
getLastReset(current) ==
  LET resetTime == StartOfDay(current) + ResetSeconds IN
    IF current < resetTime THEN resetTime - SecondsPerDay ELSE resetTime

\* rowCount > 0 && lastClaim !== null && lastClaim >= lastReset, over the
\* rows the SELECT returned.
alreadyClaimed(rows, lastReset) == \E lastClaim \in rows : lastClaim >= lastReset

RewardRows(uuid) == IF uuid \in DOMAIN daily_rewards THEN {daily_rewards[uuid]} ELSE {}

\* nextReset.diff(now, ["hours", "minutes"]): whole hours, and the rest in
\* minutes with its fraction, each then floored.
ElapsedTime(lastReset, now) ==
  LET diff == now - lastReset IN
    <<diff \div SecondsPerHour, (diff % SecondsPerHour) \div SecondsPerMinute>>
RemainingTime(lastReset, now) ==
  LET nextReset == lastReset + SecondsPerDay
      diff == nextReset - now IN
    <<diff \div SecondsPerHour, (diff % SecondsPerHour) \div SecondsPerMinute>>

CanLockClaim(r, uuid) == claimLock[uuid] \in {NoReq, r}

\* Another claim of the same account is being handled.
InFlightClaims(uuid) == {x \in DOMAIN pc : Active(x) /\ req[x].kind = "daily" /\ req[x].uuid = uuid}

DailyBegin(r) ==
  /\ MayStart(r)
  /\ \E route \in Admitted("daily") :
       LET uuid == User(route)
           claim == Request("daily", uuid, "", DAILY_REWARD_AMOUNT, 0, 0, clock) IN
         /\ Routed(r, route)
         /\ uuid \in Claimers \cup {""}
         /\ IF uuid = ""
            THEN /\ Reject(r, claim, Fail(400, "Missing uuid"))
                 /\ UNCHANGED <<inTx, local, priorClaim, overlapped>>
            ELSE /\ Begin(r, claim)
                 /\ priorClaim' = [priorClaim EXCEPT ![r] = RewardRows(uuid)]
                 /\ overlapped' = [x \in DOMAIN pc |->
                                    \/ overlapped[x]
                                    \/ InFlightClaims(uuid) # {} /\ x \in InFlightClaims(uuid) \cup {r}]
                 /\ local' = [local EXCEPT ![r].lastReset = getLastReset(clock)]
                 /\ UNCHANGED resp
  /\ UNCHANGED <<user_funds, daily_rewards, currency_transactions, rowLock, claimLock, tokens,
                 clock, writes, claimWrite, thrown, errorLog, bal0, committed, commitOrder, appended,
                 user_names, mob_limit_reached>>

DailySelectUser(r) ==
  /\ pc[r] = "selectUser" /\ req[r].kind = "daily"
  /\ LET uuid == req[r].uuid IN
       IF NotFound(RowCount(uuid))
       THEN /\ Rollback(r)
            /\ resp' = [resp EXCEPT ![r] = Fail(404, "User not found.")]
            /\ pc' = [pc EXCEPT ![r] = "done"]
            /\ UNCHANGED <<local, thrown>>
       ELSE /\ CanLock(r, uuid)
            /\ rowLock' = SelectForUpdateLocks(r, uuid)
            /\ local' = [local EXCEPT ![r].balance = Cur(r, uuid)]
            /\ Goto(r, "selectUser", resp[r])
            /\ UNCHANGED <<user_funds, daily_rewards, claimLock, inTx, writes, claimWrite>>
  /\ UNCHANGED <<currency_transactions, tokens, clock, req, errorLog, bal0, priorClaim, overlapped, committed, commitOrder,
                 appended,
                 user_names, mob_limit_reached, http>>

DailySelectReward(r) ==
  /\ pc[r] = "selectReward" /\ req[r].kind = "daily"
  /\ LET uuid == req[r].uuid
         rows == RewardRows(uuid) IN
       /\ rows # {} => CanLockClaim(r, uuid)
       /\ claimLock' = IF rows # {} THEN [claimLock EXCEPT ![uuid] = r] ELSE claimLock
       /\ pc' = [pc EXCEPT ![r] = IF alreadyClaimed(rows, local[r].lastReset) THEN "reject"
                                  ELSE NextPc("daily", "selectReward")]
  /\ UNCHANGED <<user_funds, daily_rewards, currency_transactions, rowLock, tokens, clock,
                 req, inTx, writes, claimWrite, local, thrown, resp, errorLog, bal0, priorClaim, overlapped,
                 committed, commitOrder, appended,
                 user_names, mob_limit_reached, http>>

DailyReject(r) ==
  /\ pc[r] = "reject" /\ req[r].kind = "daily"
  /\ Rollback(r)
  /\ resp' = [resp EXCEPT ![r] = RateLimited(RemainingTime(local[r].lastReset, req[r].now))]
  /\ pc' = [pc EXCEPT ![r] = "done"]
  /\ UNCHANGED <<currency_transactions, tokens, clock, req, local, thrown, errorLog, bal0, priorClaim, overlapped,
                 committed, commitOrder, appended,
                 user_names, mob_limit_reached, http>>

DailyCredit(r) ==
  /\ pc[r] = "credit" /\ req[r].kind = "daily"
  /\ CanLock(r, req[r].uuid)
  /\ rowLock' = [rowLock EXCEPT ![req[r].uuid] = r]
  /\ writes' = Written(r, req[r].uuid, Credit(Cur(r, req[r].uuid), DAILY_REWARD_AMOUNT))
  /\ Goto(r, "credit", resp[r])
  /\ UNCHANGED <<user_funds, daily_rewards, currency_transactions, claimLock, tokens, clock,
                 req, inTx, claimWrite, local, errorLog, bal0, priorClaim, overlapped, committed, commitOrder, appended,
                 user_names, mob_limit_reached, http>>

DailyUpsert(r) ==
  /\ pc[r] = "upsert" /\ req[r].kind = "daily"
  /\ CanLockClaim(r, req[r].uuid)
  /\ claimLock' = [claimLock EXCEPT ![req[r].uuid] = r]
  /\ claimWrite' = [claimWrite EXCEPT ![r] = {req[r].now}]
  /\ Goto(r, "upsert", resp[r])
  /\ UNCHANGED <<user_funds, daily_rewards, currency_transactions, rowLock, tokens, clock,
                 req, inTx, writes, local, errorLog, bal0, priorClaim, overlapped, committed, commitOrder, appended,
                 user_names, mob_limit_reached, http>>

DailyCommit(r) ==
  /\ pc[r] = "commit" /\ req[r].kind = "daily"
  /\ Commit(r)
  /\ Goto(r, "commit", Ok(local[r].balance + DAILY_REWARD_AMOUNT))
  /\ UNCHANGED <<currency_transactions, tokens, clock, req, local, errorLog, bal0, priorClaim, overlapped, appended,
                 user_names, mob_limit_reached, http>>

\* ------------------------------------------------------------ GET /currency/top
Position(uuid) == CHOOSE i \in DOMAIN TableOrder : TableOrder[i] = uuid

Before(tie, u, v) ==
  IF tie = "forward" THEN Position(u) < Position(v) ELSE Position(u) > Position(v)

\* ORDER BY balance DESC
RECURSIVE OrderByBalanceDesc(_, _, _)
TableScan(funds, rows, tie) ==
  [i \in 1 .. Cardinality(rows) |->
     CHOOSE u \in rows : Cardinality({v \in rows : Before(tie, v, u)}) = i - 1]
OrderByBalanceDesc(funds, rows, tie) ==
  IF rows = {} THEN <<>>
  ELSE LET first == CHOOSE u \in rows :
                      \A v \in rows \ {u} :
                        \/ funds[u] > funds[v]
                        \/ funds[u] = funds[v] /\ Before(tie, u, v) IN
         <<first>> \o OrderByBalanceDesc(funds, rows \ {first}, tie)

\* LIMIT n
Limit(rows, n) == SubSeq(rows, 1, IF Len(rows) < n THEN Len(rows) ELSE n)

\* SELECT name, balance FROM user_funds ORDER BY balance DESC LIMIT 10
TopQuery(funds, names, tie) ==
  LET rows == Limit(OrderByBalanceDesc(funds, DOMAIN funds, tie), TopLimit) IN
    [i \in DOMAIN rows |-> [name |-> names[rows[i]], balance |-> funds[rows[i]]]]

Top(r) ==
  /\ MayStart(r)
  /\ \E route \in Admitted("top"), tie \in TieOrders :
       /\ Routed(r, route)
       /\ User(route) \in Readers \cup {""}
       /\ Reject(r, Request("top", "", "", 0, 0, 0, 0),
                 Ranking(TopQuery(user_funds, user_names, tie)))
  /\ UNCHANGED <<user_funds, daily_rewards, currency_transactions, rowLock, claimLock, tokens,
                 clock, inTx, writes, claimWrite, local, thrown, errorLog, bal0, priorClaim, overlapped, committed, commitOrder,
                 appended, user_names, mob_limit_reached>>

\* ------------------------------------------------------------ /currency/mob-limit
\* CURRENT_DATE, with the store's day starting at local midnight.
CURRENT_DATE == clock \div SecondsPerDay

\* INSERT INTO mob_limit_reached (uuid, date_reached) VALUES ($1, CURRENT_DATE)
\* ON CONFLICT (uuid) DO UPDATE SET date_reached = CURRENT_DATE
KeepFirstDate(rows, uuid, date) == IF uuid \in DOMAIN rows THEN rows ELSE (uuid :> date) @@ rows
UpsertDate(rows, uuid, date) == (uuid :> date) @@ rows

\* SELECT 1 FROM mob_limit_reached WHERE uuid = $1 AND date_reached = CURRENT_DATE LIMIT 1
AnyDate(uuid, date) == IF uuid \in DOMAIN mob_limit_reached THEN 1 ELSE 0
LimitRows(uuid, date) ==
  IF uuid \in DOMAIN mob_limit_reached /\ mob_limit_reached[uuid] = date THEN 1 ELSE 0

MobLimitMark(r) ==
  /\ MayStart(r)
  /\ \E route \in Admitted("mobLimitMark") :
       LET uuid == User(route) IN
         /\ Routed(r, route)
         /\ uuid \in Markers \cup {""}
         /\ IF uuid = ""
            THEN /\ Reject(r, Request("mobLimitMark", uuid, "", 0, 0, 0, clock), Fail(400, "Missing uuid"))
                 /\ UNCHANGED mob_limit_reached
            ELSE /\ mob_limit_reached' = UpsertDate(mob_limit_reached, uuid, CURRENT_DATE)
                 /\ Reject(r, Request("mobLimitMark", uuid, "", 0, 0, 0, clock), Ok(0))
  /\ UNCHANGED <<user_funds, daily_rewards, currency_transactions, rowLock, claimLock, tokens,
                 clock, inTx, writes, claimWrite, local, thrown, errorLog, bal0, priorClaim, overlapped, committed, commitOrder,
                 appended, user_names>>

MobLimitCheck(r) ==
  /\ MayStart(r)
  /\ \E route \in Admitted("mobLimitCheck") :
       LET uuid == User(route)
           rowCount == LimitRows(uuid, CURRENT_DATE) IN
         /\ Routed(r, route)
         /\ uuid \in Markers \cup {""}
         /\ Reject(r, Request("mobLimitCheck", uuid, "", 0, 0, 0, clock),
                   IF uuid = "" THEN Fail(400, "Missing uuid") ELSE LimitReached(rowCount > 0))
  /\ UNCHANGED <<user_funds, daily_rewards, currency_transactions, rowLock, claimLock, tokens,
                 clock, inTx, writes, claimWrite, local, thrown, errorLog, bal0, priorClaim, overlapped, committed, commitOrder,
                 appended, user_names, mob_limit_reached>>

\* ------------------------------------------------------------ requests no handler gets
\* A middleware answers the request, or no route serves its path.
Refuse(r) ==
  /\ MayStart(r)
  /\ \E route \in Refused :
       /\ Routed(r, route)
       /\ Reject(r, Request(RouteName(route[1]), "", "", 0, 0, 0, 0), route[2].response)
  /\ UNCHANGED <<user_funds, daily_rewards, currency_transactions, rowLock, claimLock, tokens,
                 clock, inTx, writes, claimWrite, local, thrown, errorLog, bal0, priorClaim, overlapped, committed, commitOrder,
                 appended, user_names, mob_limit_reached>>

\* ------------------------------------------------------------ time
Pass(instants) ==
  /\ \E instant \in instants : instant > clock /\ clock' = instant
  /\ UNCHANGED <<user_funds, daily_rewards, currency_transactions, rowLock, claimLock, tokens,
                 req, pc, inTx, writes, claimWrite, local, thrown, resp, errorLog, bal0, priorClaim, overlapped,
                 committed, commitOrder, appended,
                 user_names, mob_limit_reached, http>>

Tick == Pass(Instants)

\* ------------------------------------------------------------ specifications
InitRequests(requests) ==
  /\ req = [r \in requests |-> NoRequest]
  /\ pc = [r \in requests |-> "idle"]
  /\ inTx = [r \in requests |-> FALSE]
  /\ writes = [r \in requests |-> EmptyWrites]
  /\ claimWrite = [r \in requests |-> {}]
  /\ local = [r \in requests |-> NoLocal]
  /\ thrown = [r \in requests |-> ""]
  /\ resp = [r \in requests |-> NoResp]
  /\ errorLog = [r \in requests |-> 0]
  /\ committed = [r \in requests |-> FALSE]
  /\ commitOrder = <<>>
  /\ appended = [r \in requests |-> 0]
  /\ priorClaim = [r \in requests |-> {}]
  /\ overlapped = [r \in requests |-> FALSE]
  /\ http = [r \in requests |-> NoHttp]

InitTables(funds, names, issued) ==
  /\ user_funds = funds
  /\ bal0 = funds
  /\ daily_rewards = [u \in {} |-> 0]
  /\ currency_transactions = <<>>
  /\ rowLock = [u \in Uuids |-> NoReq]
  /\ claimLock = [u \in Uuids |-> NoReq]
  /\ tokens = issued
  /\ clock = FirstInstant
  /\ user_names = names
  /\ mob_limit_reached = [u \in {} |-> 0]

InitAccounts(funds, names) == InitTables(funds, names, DOMAIN funds)

InitStore(funds) == InitAccounts(funds, [u \in DOMAIN funds |-> FirstName])

\* The registered players have logged in and hold some balance.
Init ==
  /\ \E funds \in InitFunds : InitStore(funds)
  /\ InitRequests(Req)

Next ==
  \/ \E r \in DOMAIN pc : Login(r)
  \/ \E r \in DOMAIN pc : Balance(r)
  \/ \E r \in DOMAIN pc : PayBegin(r)
  \/ \E r \in DOMAIN pc : PaySelect(r)
  \/ \E r \in DOMAIN pc : PayDebit(r)
  \/ \E r \in DOMAIN pc : PayCredit(r)
  \/ \E r \in DOMAIN pc : PayDeadlock(r)
  \/ \E r \in DOMAIN pc : PayCommit(r)
  \/ \E r \in DOMAIN pc : PayLog(r)
  \/ \E r \in DOMAIN pc : PayCatch(r)
  \/ \E r \in DOMAIN pc : DepositBegin(r)
  \/ \E r \in DOMAIN pc : DepositUpdate(r)
  \/ \E r \in DOMAIN pc : DepositCommit(r)
  \/ \E r \in DOMAIN pc : DepositLog(r)
  \/ \E r \in DOMAIN pc : DepositCatch(r)
  \/ \E r \in DOMAIN pc : WithdrawBegin(r)
  \/ \E r \in DOMAIN pc : WithdrawSelect(r)
  \/ \E r \in DOMAIN pc : WithdrawUpdate(r)
  \/ \E r \in DOMAIN pc : WithdrawCommit(r)
  \/ \E r \in DOMAIN pc : WithdrawLog(r)
  \/ \E r \in DOMAIN pc : WithdrawCatch(r)
  \/ \E r \in DOMAIN pc : DailyBegin(r)
  \/ \E r \in DOMAIN pc : DailySelectUser(r)
  \/ \E r \in DOMAIN pc : DailySelectReward(r)
  \/ \E r \in DOMAIN pc : DailyReject(r)
  \/ \E r \in DOMAIN pc : DailyCredit(r)
  \/ \E r \in DOMAIN pc : DailyUpsert(r)
  \/ \E r \in DOMAIN pc : DailyCommit(r)
  \/ \E r \in DOMAIN pc : MobLimitMark(r)

Spec == Init /\ [][Next]_vars


\* Daily claims of one account while time passes.
NextDaily ==
  \/ Tick
  \/ \E r \in DOMAIN pc : DailyBegin(r)
  \/ \E r \in DOMAIN pc : DailySelectUser(r)
  \/ \E r \in DOMAIN pc : DailySelectReward(r)
  \/ \E r \in DOMAIN pc : DailyReject(r)
  \/ \E r \in DOMAIN pc : DailyCredit(r)
  \/ \E r \in DOMAIN pc : DailyUpsert(r)
  \/ \E r \in DOMAIN pc : DailyCommit(r)

SpecDaily == Init /\ [][NextDaily]_vars

\* A burst of n pays of one amount from "a", whose balance covers n - 1 of them.
BurstSender == "a"
BurstSize == Cardinality(DOMAIN pc)
BurstAmount == bal0[BurstSender] \div (BurstSize - 1)

InitPay ==
  \E n \in 2 .. NPay, amount \in {x \in Amounts : x > 0} :
    /\ InitStore([a |-> (n - 1) * amount, b |-> 0])
    /\ InitRequests(1 .. n)

PayBurst(r) ==
  /\ MayStart(r)
  /\ \E route \in Admitted("pay"), to_uuid \in Uuids :
       /\ User(route) \in {BurstSender, ""}
       /\ PayBeginWith(r, route, to_uuid, BurstAmount)

NextPay ==
  \/ \E r \in DOMAIN pc : PayBurst(r)
  \/ \E r \in DOMAIN pc : PaySelect(r)
  \/ \E r \in DOMAIN pc : PayDebit(r)
  \/ \E r \in DOMAIN pc : PayCredit(r)
  \/ \E r \in DOMAIN pc : PayCommit(r)
  \/ \E r \in DOMAIN pc : PayLog(r)
  \/ \E r \in DOMAIN pc : PayCatch(r)

SpecPay == InitPay /\ [][NextPay]_vars


\* The service when the account row of a token holder is missing: player "c"
\* holds a token, and its row has been removed by a party other than this
\* service (which has no statement that deletes one).
InitOrphan ==
  /\ \E funds \in InitFunds : InitTables(funds, [u \in DOMAIN funds |-> FirstName], Uuids)
  /\ InitRequests(Req)

SpecOrphan == InitOrphan /\ [][Next]_vars

\* Every kind of request at the router: the handlers' first segments and the
\* requests the middleware turns away.
NextGate ==
  \/ \E r \in DOMAIN pc : Refuse(r)
  \/ \E r \in DOMAIN pc : Login(r)
  \/ \E r \in DOMAIN pc : Balance(r)
  \/ \E r \in DOMAIN pc : Top(r)
  \/ \E r \in DOMAIN pc : MobLimitMark(r)
  \/ \E r \in DOMAIN pc : MobLimitCheck(r)
  \/ \E r \in DOMAIN pc : PayBegin(r)
  \/ \E r \in DOMAIN pc : DepositBegin(r)
  \/ \E r \in DOMAIN pc : WithdrawBegin(r)
  \/ \E r \in DOMAIN pc : DailyBegin(r)

SpecGate == Init /\ [][NextGate]_vars

\* Marks and checks of the mob limit while days pass.
InitMob ==
  /\ \E funds \in InitFunds : InitStore(funds)
  /\ InitRequests(1 .. NReq + 1)

NextMob ==
  \/ Tick
  \/ \E r \in DOMAIN pc : MobLimitMark(r)
  \/ \E r \in DOMAIN pc : MobLimitCheck(r)

SpecMob == InitMob /\ [][NextMob]_vars

\* Daily claims in the minutes after player "a" has claimed at the reset
\* instant of day 0.
InitClaimed ==
  /\ \E funds \in InitFunds : user_funds = funds /\ bal0 = funds
  /\ daily_rewards = [u \in {"a"} |-> ResetSeconds]
  /\ clock = ResetSeconds
  /\ currency_transactions = <<>>
  /\ rowLock = [u \in Uuids |-> NoReq]
  /\ claimLock = [u \in Uuids |-> NoReq]
  /\ tokens = DOMAIN user_funds
  /\ user_names = [u \in DOMAIN user_funds |-> FirstName]
  /\ mob_limit_reached = [u \in {} |-> 0]
  /\ InitRequests(Req)

NextRemaining ==
  \/ Pass(Moments)
  \/ \E r \in DOMAIN pc : DailyBegin(r)
  \/ \E r \in DOMAIN pc : DailySelectUser(r)
  \/ \E r \in DOMAIN pc : DailySelectReward(r)
  \/ \E r \in DOMAIN pc : DailyReject(r)
  \/ \E r \in DOMAIN pc : DailyCredit(r)
  \/ \E r \in DOMAIN pc : DailyUpsert(r)
  \/ \E r \in DOMAIN pc : DailyCommit(r)

SpecRemaining == InitClaimed /\ [][NextRemaining]_vars

\* Daily claims arriving at instants across the day: the handler up to its
\* computation of the reset boundary.
NextReset ==
  \/ Pass(DayInstants)
  \/ \E r \in DOMAIN pc : DailyBegin(r)

SpecReset == Init /\ [][NextReset]_vars

\* The leaderboard of tables of up to MaxAccounts accounts, each named after
\* its uuid.
Players(n) == {TableOrder[i] : i \in 1 .. n}
TopBalances(n) == IF n <= 3 THEN {10, 50, 200} ELSE {10, 50}

InitTop ==
  /\ \E n \in 1 .. MaxAccounts :
       \E funds \in [Players(n) -> TopBalances(n)] :
         InitAccounts(funds, [u \in Players(n) |-> u])
  /\ InitRequests({1})

NextTop == \E r \in DOMAIN pc : Top(r)

SpecTop == InitTop /\ [][NextTop]_vars


\* ------------------------------------------------------------ properties
Requests == DOMAIN pc
Done(r) == pc[r] = "done"
Quiescent == \A r \in Requests : ~Active(r)
Succeeded(r) == Done(r) /\ resp[r].status = 200
FailedWith(r, error) == Done(r) /\ resp[r] = Fail(400, error)
Mutation(r) == req[r].kind \in {"pay", "deposit", "withdraw"}
LogFailed(r) == thrown[r] = LogError

RECURSIVE Sum(_, _)
Sum(f, S) == IF S = {} THEN 0 ELSE LET x == CHOOSE y \in S : TRUE IN f[x] + Sum(f, S \ {x})

Records(action) ==
  {i \in 1 .. Len(currency_transactions) : currency_transactions[i].action = action}

\* What a request adds to the balance of account u when it takes effect.
Effect(r, u) ==
  CASE req[r].kind = "pay" ->
         (IF u = req[r].to THEN req[r].amount ELSE 0) - (IF u = req[r].uuid THEN req[r].amount ELSE 0)
    [] req[r].kind \in {"deposit", "daily"} -> IF u = req[r].uuid THEN req[r].amount ELSE 0
    [] req[r].kind = "withdraw" -> IF u = req[r].uuid THEN 0 - req[r].amount ELSE 0
    [] OTHER -> 0

InitialBalance(u) == IF u \in DOMAIN bal0 THEN bal0[u] ELSE 0

Ledger(u, S) == InitialBalance(u) + Sum([r \in Requests |-> Effect(r, u)], S)

\* C1: in every reachable state, whatever the interleaving of login, pay,
\* deposit, withdraw and daily-claim requests, every stored balance is >= 0.
C1_BalanceNonNegative == \A u \in DOMAIN user_funds : user_funds[u] >= 0

\* C1's case: a debit that empties an account is about to commit while a
\* second debit of the same account waits for the row lock.
C1_Witness ==
  \E r1, r2 \in Requests :
    /\ r1 # r2
    /\ req[r1].kind \in {"pay", "withdraw"} /\ req[r2].kind \in {"pay", "withdraw"}
    /\ req[r1].uuid = req[r2].uuid
    /\ req[r1].amount > 0 /\ req[r2].amount > 0
    /\ pc[r1] = "commit" /\ Cur(r1, req[r1].uuid) = 0
    /\ pc[r2] = "select" /\ ~CanLock(r2, req[r2].uuid)

\* The burst has completed, every pay went to another existing account and
\* no log append failed.
C2_Burst ==
  /\ \A r \in Requests : Done(r) /\ ~LogFailed(r)
  /\ \A r \in Requests : req[r].to \in DOMAIN user_funds \ {BurstSender}

\* C2: n >= 2 concurrent pays of one amount from a sender holding
\* (n - 1) * amount, each to another existing account, no log append
\* failing: once all have completed exactly one has failed with
\* "Insufficient funds", n - 1 have succeeded, the sender's balance is 0 and
\* the log holds n - 1 pay records.
C2_OneOfBurstFails ==
  C2_Burst =>
    /\ Cardinality({r \in Requests : FailedWith(r, "Insufficient funds")}) = 1
    /\ Cardinality({r \in Requests : Succeeded(r)}) = BurstSize - 1
    /\ user_funds[BurstSender] = 0
    /\ Cardinality(Records("pay")) = BurstSize - 1
    /\ Len(currency_transactions) = BurstSize - 1

C2_Witness == C2_Burst /\ BurstSize = NPay /\ user_funds["b"] = (NPay - 1) * BurstAmount

\* C3: once all requests have completed, each balance is the initial balance
\* plus the committed credits to the account minus the committed debits
\* from it.
C3_NoLostUpdate ==
  Quiescent =>
    \A u \in DOMAIN user_funds : user_funds[u] = Ledger(u, {r \in Requests : committed[r]})

\* C3's case: two committed requests changed the same account.
C3_Witness ==
  /\ Quiescent
  /\ \E r1, r2 \in Requests, u \in DOMAIN user_funds :
       /\ r1 # r2 /\ committed[r1] /\ committed[r2]
       /\ Effect(r1, u) > 0 /\ Effect(r2, u) > 0
       /\ req[r1].kind # req[r2].kind


\* A pay of a positive amount to a missing account whose sender passed the
\* funds check.
C4_Unpaid(r) ==
  /\ req[r].kind = "pay" /\ req[r].amount > 0
  /\ req[r].to \notin DOMAIN user_funds
  /\ ~InsufficientFunds(local[r].balance, req[r].amount)

C4_Answered ==
  \A r \in Requests :
    Done(r) /\ C4_Unpaid(r) =>
      /\ resp[r] = Fail(400, "Recipient not found")
      /\ ~committed[r] /\ appended[r] = 0

C4_DebitPrivate ==
  \A r \in Requests :
    pc[r] = "catch" /\ thrown[r] = "Recipient not found" =>
      /\ user_funds[req[r].uuid] = local[r].balance
      /\ rowLock[req[r].uuid] = r
      /\ \A r2 \in Requests \ {r} : req[r].uuid \notin DOMAIN writes[r2]

C4_RolledBack ==
  \A r \in Requests :
    pc[r] = "catch" /\ thrown[r] = "Recipient not found" /\ pc'[r] = "done" =>
      /\ user_funds' = user_funds
      /\ user_funds'[req[r].uuid] = local[r].balance
      /\ writes'[r] = EmptyWrites
      /\ rowLock'[req[r].uuid] = NoReq

C4_ReadsStored ==
  \A r \in Requests :
    pc[r] = "idle" /\ req'[r].kind = "balance" =>
      resp'[r] = Ok(user_funds[req'[r].uuid])

\* C4: a pay to an account that does not exist, from a sender who can cover
\* it, is answered 400 "Recipient not found" and is rolled back entirely:
\* it commits nothing and logs nothing, its debit exists only as its own
\* uncommitted row version under its row lock, the ROLLBACK leaves the
\* sender's stored balance at the value read before the debit, and a
\* balance read by another request returns the stored balance, never the
\* debited one.
C4_RecipientNotFound ==
  /\ [](C4_Answered /\ C4_DebitPrivate)
  /\ [][C4_RolledBack /\ C4_ReadsStored]_vars

\* C4's case: the sender's balance has been read while a pay to a missing
\* account held its debited, uncommitted version of it.
C4_Witness ==
  \E r, r2 \in Requests :
    /\ r2 > r
    /\ pc[r] = "catch" /\ thrown[r] = "Recipient not found"
    /\ Cur(r, req[r].uuid) # user_funds[req[r].uuid]
    /\ req[r2].kind = "balance" /\ req[r2].uuid = req[r].uuid
    /\ resp[r2] = Ok(local[r].balance)


\* The requests of one kind that appended a record, and that committed.
C5_Appended(action) == {r \in Requests : req[r].kind = action /\ appended[r] = 1}
C5_Committed(action) == {r \in Requests : req[r].kind = action /\ committed[r]}

\* C5: pay, deposit and withdraw transactions and their log records pair
\* one to one: a request appends at most one record, and only once its
\* transaction has committed (so a rejected or rolled-back request appends
\* none); the log holds exactly the records the requests appended; and once
\* all requests have completed with no log append failed, the records of
\* each action are as many as the committed transactions of that action.
C5_LogPairsWithCommits ==
  /\ \A r \in Requests :
       /\ appended[r] <= 1
       /\ appended[r] = 1 => committed[r] /\ Mutation(r)
  /\ Len(currency_transactions) = Sum(appended, Requests)
  /\ \A action \in {"pay", "deposit", "withdraw"} :
       /\ Cardinality(Records(action)) = Cardinality(C5_Appended(action))
       /\ Quiescent /\ (\A r \in Requests : ~LogFailed(r)) =>
            Cardinality(Records(action)) = Cardinality(C5_Committed(action))

\* C5's case: all requests have completed, one committed and logged, one
\* was turned down and logged nothing.
C5_Witness ==
  /\ Quiescent /\ \A r \in Requests : ~LogFailed(r)
  /\ \E r1, r2 \in Requests :
       /\ Mutation(r1) /\ committed[r1] /\ appended[r1] = 1
       /\ Mutation(r2) /\ FailedWith(r2, "Insufficient funds") /\ appended[r2] = 0

\* C6: every successful daily claim (reward credited and committed) has
\* appended one record with action "daily" for its account.
C6_DailyClaimLogged ==
  \A r \in Requests :
    req[r].kind = "daily" /\ Succeeded(r) /\ committed[r] =>
      Cardinality({i \in Records("daily") : currency_transactions[i].uuid = req[r].uuid}) = 1

\* The requests whose change the caller or the error path saw through.
C7_TookEffect == {r \in Requests : Succeeded(r) \/ (Done(r) /\ LogFailed(r))}

C7_FailureFollowsCommit ==
  \A r \in Requests :
    LogFailed(r) => Mutation(r) /\ committed[r] /\ ~inTx[r] /\ writes[r] = EmptyWrites

C7_BalancesKeepChange ==
  Quiescent => \A u \in DOMAIN user_funds : user_funds[u] = Ledger(u, C7_TookEffect)

C7_RollbackReversesNothing ==
  \A r \in Requests :
    pc[r] = "catch" /\ LogFailed(r) /\ pc'[r] = "done" => user_funds' = user_funds

\* C7: when the log append fails after a pay, deposit or withdraw has
\* committed, the change stays committed: the failure can only follow the
\* COMMIT, the error path's ROLLBACK finds no open transaction and leaves
\* every stored balance as it is, and once all requests have completed the
\* balances include the changes of the requests whose log append failed; a
\* balance read returns that stored balance.
C7_CommitSurvivesLogFailure ==
  /\ [](C7_FailureFollowsCommit /\ C7_BalancesKeepChange)
  /\ [][C7_RollbackReversesNothing /\ C4_ReadsStored]_vars

\* C7's case: a deposit's log append failed, and a later balance read
\* returned the balance with the deposit in it.
C7_Witness ==
  \E r, r2 \in Requests :
    /\ r2 > r
    /\ req[r].kind = "deposit" /\ Done(r) /\ LogFailed(r)
    /\ req[r2].kind = "balance" /\ req[r2].uuid = req[r].uuid
    /\ resp[r2] = Ok(bal0[req[r].uuid] + req[r].amount)

\* C8: a log-append failure after a committed pay, deposit or withdraw is
\* swallowed: it is logged at error severity and the caller still gets the
\* operation's success response.
C8_LogFailureSwallowed ==
  \A r \in Requests :
    Done(r) /\ LogFailed(r) /\ committed[r] =>
      /\ errorLog[r] >= 1
      /\ resp[r] = Ok(local[r].newBalance)


\* The reset window an instant falls in, named by the boundary that opens it.
Boundaries == {d * SecondsPerDay + ResetSeconds : d \in -1 .. MaxDay}
WindowOf(instant) == CHOOSE b \in Boundaries : b <= instant /\ instant < b + SecondsPerDay

Claims(uuid) == {r \in Requests : req[r].kind = "daily" /\ req[r].uuid = uuid}

\* C9: of the daily claims of one account that arrive in the same reset
\* window, under any interleaving, at most one succeeds, and the account is
\* credited the reward once for each window with a successful claim.
C9_OneClaimPerWindow ==
  \A uuid \in Claimers :
    /\ \A r1, r2 \in Claims(uuid) :
         r1 # r2 /\ WindowOf(req[r1].now) = WindowOf(req[r2].now) =>
           /\ ~(committed[r1] /\ committed[r2])
           /\ ~(Succeeded(r1) /\ Succeeded(r2))
    /\ user_funds[uuid] = bal0[uuid] + DAILY_REWARD_AMOUNT *
         Cardinality({WindowOf(req[r].now) : r \in {x \in Claims(uuid) : committed[x]}})

\* C9's case: a claim is about to commit while another claim of the account,
\* arrived in the same window, waits for the account's row lock.
C9_Witness ==
  \E r1, r2 \in Claims("a") :
    /\ r1 # r2
    /\ WindowOf(req[r1].now) = WindowOf(req[r2].now)
    /\ pc[r1] = "commit"
    /\ pc[r2] = "selectUser" /\ ~CanLock(r2, "a")

\* No stored claim, or one strictly before the boundary of the instant.
C10_Eligible(r) == \A lastClaim \in priorClaim[r] : lastClaim < WindowOf(req[r].now)

\* C10: a daily claim handled with no other claim of the account in flight
\* succeeds exactly when the account has no stored claim or its stored
\* claim is strictly before the reset boundary of the claim's instant, and
\* is answered 429 otherwise; so the second of two successive claims in one
\* window is answered 429.
C10_ClaimIffBeforeBoundary ==
  /\ \A r \in Requests :
       req[r].kind = "daily" /\ Done(r) /\ ~overlapped[r] =>
         /\ Succeeded(r) <=> C10_Eligible(r)
         /\ ~Succeeded(r) => resp[r].status = 429 /\ ~committed[r]
  /\ \A r1, r2 \in Claims("a") :
       /\ r1 < r2 /\ ~overlapped[r1] /\ ~overlapped[r2]
       /\ Succeeded(r1) /\ Done(r2)
       /\ WindowOf(req[r1].now) = WindowOf(req[r2].now)
       => resp[r2].status = 429

\* C10's case: a claim one second before a boundary and the next one second
\* after it have both succeeded.
C10_Witness ==
  \E r1, r2 \in Claims("a"), b \in Boundaries :
    /\ ~overlapped[r1] /\ ~overlapped[r2]
    /\ req[r1].now = b - 1 /\ req[r2].now = b + 1
    /\ Succeeded(r1) /\ Succeeded(r2)
    /\ user_funds["a"] = bal0["a"] + 2 * DAILY_REWARD_AMOUNT

\* A pay or a withdrawal, and the step in which it reads its balance under
\* the row lock.
C11_Debits(r) == req[r].kind \in {"pay", "withdraw"}
C11_Reads(r) == C11_Debits(r) /\ pc[r] = "select" /\ pc'[r] # "select"
C11_Exact(r) == C11_Debits(r) /\ req[r].amount > 0 /\ local[r].balance = req[r].amount

C11_FundsCheck ==
  \A r \in Requests :
    C11_Reads(r) =>
      /\ local'[r].balance = user_funds[req[r].uuid]
      /\ rowLock'[req[r].uuid] = r
      /\ IF local'[r].balance < req[r].amount
         THEN pc'[r] = "catch" /\ thrown'[r] = "Insufficient funds"
         ELSE pc'[r] # "catch" /\ thrown'[r] = ""

C11_Refused ==
  \A r \in Requests :
    thrown[r] = "Insufficient funds" =>
      /\ C11_Debits(r) /\ local[r].balance < req[r].amount
      /\ ~committed[r] /\ appended[r] = 0 /\ writes[r] = EmptyWrites
      /\ Done(r) => resp[r] = Fail(400, "Insufficient funds")

C11_RefusalChangesNothing ==
  \A r \in Requests :
    /\ C11_Debits(r) /\ pc'[r] # pc[r]
    /\ thrown'[r] = "Insufficient funds"
    => user_funds' = user_funds /\ currency_transactions' = currency_transactions

C11_ExactSucceeds ==
  \A r \in Requests :
    C11_Exact(r) =>
      /\ thrown[r] # "Insufficient funds"
      /\ Done(r) /\ thrown[r] = "" => committed[r] /\ resp[r] = Ok(0)

C11_ExactLeavesZero ==
  \A r \in Requests :
    /\ C11_Exact(r) /\ pc[r] = "commit" /\ pc'[r] # "commit"
    /\ req[r].kind = "pay" => req[r].to # req[r].uuid
    => user_funds'[req[r].uuid] = 0

\* C11: a pay or withdraw whose amount exceeds the balance it reads under
\* the row lock fails with 400 "Insufficient funds", commits nothing, and
\* none of its steps changes a stored balance or the log; one whose amount
\* equals that balance passes the check, and unless a later statement fails
\* (missing recipient, lock cycle, log append) it commits and answers with
\* balance 0, its commit leaving the stored balance at 0 (a pay to another
\* account).
C11_InsufficientFunds ==
  /\ [](C11_Refused /\ C11_ExactSucceeds)
  /\ [][C11_FundsCheck /\ C11_RefusalChangesNothing /\ C11_ExactLeavesZero]_vars

\* C11's case: a debit of the whole balance has succeeded and left 0, and a
\* later debit of the same account was refused.
C11_Witness ==
  \E r1, r2 \in Requests :
    /\ r1 # r2 /\ req[r1].uuid = req[r2].uuid
    /\ C11_Exact(r1) /\ Succeeded(r1) /\ resp[r1] = Ok(0)
    /\ req[r1].kind = "pay" => req[r1].to # req[r1].uuid
    /\ local[r2].balance = 0 /\ FailedWith(r2, "Insufficient funds")
    /\ user_funds[req[r1].uuid] = 0

\* C12: every pay, deposit or withdraw whose amount (for a withdrawal
\* count * denomination) is not strictly positive is answered 400 before any
\* storage access: it opens no transaction, commits nothing, and changes no
\* balance.
C12_NonPositiveRejected ==
  \A r \in Requests :
    Mutation(r) /\ req[r].amount <= 0 =>
      /\ Done(r) /\ resp[r].status = 400
      /\ ~inTx[r] /\ ~committed[r] /\ appended[r] = 0

\* The handlers registered behind the middleware, and the state they work on.
C13_Gated == {Handlers[i].name : i \in DOMAIN Handlers}
C13_Store == <<user_funds, user_names, daily_rewards, mob_limit_reached, currency_transactions>>

C13_HandlersBehindGate ==
  \A r \in Requests :
    /\ http[r].handler \in C13_Gated =>
         /\ http[r].passed = <<"verifyJWT", "verifyIP">>
         /\ Len(http[r].authorization) = 2 /\ jwtVerify(http[r].authorization[2])
         /\ req[r].uuid \in {http[r].authorization[2].uuid, ""}
    /\ http[r].handler = LoginRoute.name => http[r].passed = <<>> /\ req[r].kind = "login"
    /\ http[r].handler = "" => ~inTx[r] /\ ~committed[r]

C13_NoChangeWithoutHandler ==
  \A r \in Requests :
    pc[r] = "idle" /\ pc'[r] # "idle" /\ http'[r].handler = "" =>
      /\ C13_Store' = C13_Store
      /\ resp'[r].status \in {401, 403, 404}

\* C13: a handler of balance, pay, deposit, withdraw, top, mob-limit or
\* daily is invoked only for a request that verifyJWT and then verifyIP
\* passed on, in that order, with a token jwt.verify accepts, and works on
\* the uuid of that token; a request that a middleware answers reaches no
\* handler and changes no balance, name, claim, flag or log row; the login
\* handler is invoked with neither middleware run.
C13_GateBeforeHandlers ==
  /\ []C13_HandlersBehindGate
  /\ [][C13_NoChangeWithoutHandler]_vars

\* C13's case: a login sent without a token has created an account, and a
\* deposit on that account has started behind both checks.
C13_Witness ==
  \E r1, r2 \in Requests :
    /\ http[r1].handler = "login" /\ http[r1].authorization = <<>> /\ req[r1].uuid = "c"
    /\ http[r2].handler = "deposit" /\ req[r2].uuid = "c" /\ inTx[r2]
    /\ http[r2].passed = <<"verifyJWT", "verifyIP">>

\* C14: GET /currency/top needs no authentication: sent without an
\* Authorization header it reaches the leaderboard handler and is answered
\* with the ranking.
C14_TopIsPublic ==
  \A r \in Requests :
    Done(r) /\ req[r].kind = "top" /\ http[r].authorization = <<>> =>
      http[r].handler = "top" /\ resp[r].status = 200

\* C15: when a statement of pay, deposit or withdraw fails with a storage
\* error (here: the store aborts the transaction to break a lock cycle),
\* not a business rule, the caller is answered with the generic internal
\* error, status 500, whose body does not carry the error's message.
C15_GenericInternalError ==
  \A r \in Requests :
    Mutation(r) /\ Done(r) /\ thrown[r] = DeadlockError =>
      resp[r].status = 500 /\ resp[r].error # thrown[r]

\* The date of an instant, and the marks and checks of the mob limit.
DateOf(instant) == instant \div SecondsPerDay
C16_Marked(r) == req[r].kind = "mobLimitMark" /\ Done(r) /\ resp[r].status = 200
C16_Checked(r) == req[r].kind = "mobLimitCheck" /\ Done(r) /\ resp[r].status = 200
C16_Marks(r) == pc[r] = "idle" /\ req'[r].kind = "mobLimitMark" /\ resp'[r].status = 200

C16_MarkSetsOneRow ==
  \A r \in Requests :
    C16_Marks(r) =>
      LET uuid == req'[r].uuid IN
        /\ DOMAIN mob_limit_reached' = DOMAIN mob_limit_reached \cup {uuid}
        /\ mob_limit_reached'[uuid] = DateOf(clock)
        /\ \A u \in DOMAIN mob_limit_reached \ {uuid} : mob_limit_reached'[u] = mob_limit_reached[u]

C16_SecondMarkChangesNothing ==
  \A r \in Requests :
    /\ C16_Marks(r)
    /\ \E r1 \in Requests :
         C16_Marked(r1) /\ req[r1].uuid = req'[r].uuid /\ DateOf(req[r1].now) = DateOf(clock)
    => mob_limit_reached' = mob_limit_reached

C16_CheckAfterMark ==
  \A r1, r2 \in Requests :
    /\ r1 < r2 /\ C16_Marked(r1) /\ C16_Checked(r2)
    /\ req[r1].uuid = req[r2].uuid /\ DateOf(req[r1].now) = DateOf(req[r2].now)
    => resp[r2].limitReached

\* C16: marking the mob limit is idempotent within a day: a mark leaves one
\* flag row for the account holding the current date, a second mark of the
\* account on that date changes nothing, and a check of the account on the
\* date of an earlier mark returns limitReached = true, after one mark or
\* after two.
C16_MarkIdempotent ==
  /\ []C16_CheckAfterMark
  /\ [][C16_MarkSetsOneRow /\ C16_SecondMarkChangesNothing]_vars

\* C16's case: the account was marked twice on one day and then checked on
\* that day.
C16_Witness ==
  \E r1, r2, r3 \in Requests :
    /\ r1 < r2 /\ r2 < r3
    /\ C16_Marked(r1) /\ C16_Marked(r2) /\ req[r1].uuid = "a" /\ req[r2].uuid = "a"
    /\ DateOf(req[r1].now) = DateOf(req[r2].now)
    /\ C16_Checked(r3) /\ req[r3].uuid = "a" /\ DateOf(req[r3].now) = DateOf(req[r1].now)
    /\ resp[r3].limitReached
    /\ mob_limit_reached = ("a" :> DateOf(req[r1].now))

\* The accounts a ranking names, and the balances it lists.
C17_Listed(top) == {u \in DOMAIN user_funds : \E i \in DOMAIN top : top[i].name = user_names[u]}
C17_Balances(top) == [i \in DOMAIN top |-> top[i].balance]

\* C17: GET /currency/top returns min(10, number of accounts) entries, each
\* the name and balance of a different account, in non-increasing order of
\* balance; no account left out holds more than a listed one; and for the
\* balances 50, 200, 10 it returns 200, 50, 10.
C17_TopRanking ==
  \A r \in Requests :
    req[r].kind = "top" /\ Succeeded(r) =>
      LET top == resp[r].top
          accounts == Cardinality(DOMAIN user_funds) IN
        /\ Len(top) = IF accounts < TopLimit THEN accounts ELSE TopLimit
        /\ Cardinality(C17_Listed(top)) = Len(top)
        /\ \A i \in DOMAIN top : \E u \in DOMAIN user_funds :
             user_names[u] = top[i].name /\ user_funds[u] = top[i].balance
        /\ \A i, j \in DOMAIN top : i < j => top[i].balance >= top[j].balance
        /\ \A u \in DOMAIN user_funds \ C17_Listed(top) :
             \A i \in DOMAIN top : user_funds[u] <= top[i].balance
        /\ user_funds = [a |-> 50, b |-> 200, c |-> 10] => C17_Balances(top) = <<200, 50, 10>>

\* C17's case: more accounts than the limit, of different balances, some of
\* the richer ones late in the table: the ranking is cut at the limit.
C17_Witness ==
  \E r \in Requests :
    /\ req[r].kind = "top" /\ Succeeded(r)
    /\ Cardinality(DOMAIN user_funds) > TopLimit
    /\ Len(resp[r].top) = TopLimit
    /\ resp[r].top[1].balance > resp[r].top[TopLimit].balance
    /\ user_funds[TableOrder[1]] < user_funds[TableOrder[Cardinality(DOMAIN user_funds)]]
    /\ TableOrder[1] \notin C17_Listed(resp[r].top)

\* The step in which request r is handled as a login with uuid and name.
C18_LogsIn(r) == pc[r] = "idle" /\ req'[r].kind = "login" /\ resp'[r].status = 200

C18_LoginFrame ==
  \A r \in Requests :
    C18_LogsIn(r) =>
      LET uuid == req'[r].uuid IN
        /\ DOMAIN user_funds' = DOMAIN user_funds \cup {uuid}
        /\ \A u \in DOMAIN user_funds : user_funds'[u] = user_funds[u]
        /\ uuid \notin DOMAIN user_funds => user_funds'[uuid] = 0
        /\ DOMAIN user_names' = DOMAIN user_funds'
        /\ \A u \in DOMAIN user_names \ {uuid} : user_names'[u] = user_names[u]
        /\ daily_rewards' = daily_rewards
        /\ mob_limit_reached' = mob_limit_reached
        /\ currency_transactions' = currency_transactions
        /\ writes' = writes

C18_NoAccountDeleted == DOMAIN user_funds \subseteq DOMAIN user_funds'

\* C18: a login for a uuid with no account creates the account with balance
\* 0; a login for a uuid that has an account changes nothing but its name:
\* every balance, claim timestamp, mob-limit flag, log record and other
\* name stays as it is; and no step of any operation removes an account.
C18_LoginUpsert == [][C18_LoginFrame /\ C18_NoAccountDeleted]_vars

\* C18's case: a player with a claimed reward has logged in again under a
\* new name.
C18_Witness ==
  \E r \in Requests :
    /\ req[r].kind = "login" /\ Succeeded(r) /\ req[r].uuid = "a"
    /\ user_names["a"] # FirstName
    /\ "a" \in DOMAIN daily_rewards
    /\ user_funds["a"] = bal0["a"] + DAILY_REWARD_AMOUNT

\* The requests handled for the holder of a token, and the branches a
\* handler takes when the holder's account row is missing.
C19_Authenticated(r) ==
  /\ http[r].handler \in {"balance", "pay", "deposit", "withdraw", "daily"}
  /\ req[r].uuid # ""
C19_NotFoundBranch(r) ==
  \/ resp[r].status = 404
  \/ thrown[r] \in {"Sender not found", "User not found"}

\* C19: every uuid for which login has issued a token has an account row
\* from then on, so a balance, deposit, withdraw, daily or pay request
\* authenticated with such a token works on an existing account and never
\* takes its account-not-found branch.
C19_TokenHolderHasAccount ==
  /\ tokens \subseteq DOMAIN user_funds
  /\ \A r \in Requests :
       C19_Authenticated(r) =>
         /\ req[r].uuid \in tokens
         /\ req[r].uuid \in DOMAIN user_funds
         /\ ~C19_NotFoundBranch(r)

\* C19's case: a player whose account the login created has deposited.
C19_Witness ==
  \E r1, r2 \in Requests :
    /\ r1 < r2
    /\ req[r1].kind = "login" /\ Succeeded(r1) /\ req[r1].uuid \notin DOMAIN bal0
    /\ req[r2].kind = "deposit" /\ req[r2].uuid = req[r1].uuid /\ Succeeded(r2)
    /\ user_funds[req[r2].uuid] = req[r2].amount

Commits(r) == ~committed[r] /\ committed'[r]

\* The log record the step appends.
Appends(r) == appended'[r] = appended[r] + 1
LastRecord == currency_transactions'[Len(currency_transactions')]

C21_CommitStoresReported ==
  \A r \in Requests :
    req[r].kind = "pay" /\ Commits(r) => user_funds'[req[r].uuid] = local[r].newBalance

C21_ReportsComputed ==
  \A r \in Requests :
    /\ req[r].kind = "pay" /\ Appends(r) => LastRecord.balance_after = local[r].newBalance
    /\ req[r].kind = "pay" /\ ~Done(r) /\ Succeeded(r)' => resp'[r].balance = local[r].newBalance
    /\ req[r].kind = "pay" /\ committed[r] => local'[r] = local[r]

\* C21: for every successful pay, a pay to the sender's own uuid included,
\* the new_sender_balance returned and the balance_after of its log record
\* equal the sender's balance that the pay's COMMIT stores in user_funds.
C21_PayReportsStoredBalance == [][C21_CommitStoresReported /\ C21_ReportsComputed]_vars

\* The same statement for the pays whose recipient is another account.
C21_OtherRecipient ==
  [][/\ \A r \in Requests :
          req[r].kind = "pay" /\ req[r].to # req[r].uuid /\ Commits(r) =>
            user_funds'[req[r].uuid] = local[r].newBalance
     /\ C21_ReportsComputed]_vars

\* The balance a handler reports once its transaction has committed.
C22_Reported(r) ==
  IF req[r].kind = "daily" THEN local[r].balance + DAILY_REWARD_AMOUNT ELSE local[r].newBalance

C22_Kinds == {"deposit", "withdraw", "daily"}

C22_CommitStoresReported ==
  \A r \in Requests :
    req[r].kind \in C22_Kinds /\ Commits(r) => user_funds'[req[r].uuid] = C22_Reported(r)

C22_ReportsComputed ==
  \A r \in Requests :
    req[r].kind \in C22_Kinds =>
      /\ Appends(r) => LastRecord.balance_after = C22_Reported(r) /\ LastRecord.uuid = req[r].uuid
      /\ ~Done(r) /\ Succeeded(r)' => resp'[r].balance = C22_Reported(r)
      /\ committed[r] => local'[r] = local[r] /\ req'[r] = req[r]

\* C22: for every successful deposit, withdraw and daily claim, whatever
\* other requests on the same account run beside it, the new balance returned
\* (and, for deposit and withdraw, the balance_after of the log record) is
\* the balance of the account that the operation's COMMIT stores.
C22_ReportsStoredBalance == [][C22_CommitStoresReported /\ C22_ReportsComputed]_vars

\* C22's case: a deposit has committed and is still appending its record
\* while a daily claim of the same account, started after it, has committed
\* on top of the deposit and answered.
C22_Witness ==
  \E r1, r2 \in Requests :
    /\ req[r1].kind = "deposit" /\ pc[r1] = "log" /\ committed[r1]
    /\ req[r2].kind = "daily" /\ req[r2].uuid = req[r1].uuid /\ Succeeded(r2)
    /\ local[r1].newBalance = bal0[req[r1].uuid] + req[r1].amount
    /\ resp[r2].balance = local[r1].newBalance + DAILY_REWARD_AMOUNT
    /\ user_funds[req[r2].uuid] = resp[r2].balance

\* Pay r holds the row lock of its sender and its credit waits for the
\* recipient's row, which another transaction has locked.
C23_HoldsAndWaits(r) ==
  /\ req[r].kind = "pay" /\ pc[r] = "credit"
  /\ rowLock[req[r].uuid] = r
  /\ req[r].to \in DOMAIN user_funds /\ ~CanLock(r, req[r].to)

\* C23: lock acquisition in pay cannot deadlock: with A paying B while B pays
\* A, no reachable state has each of the two transactions holding the row
\* lock of its own sender while waiting for the row lock the other holds.
C23_NoLockCycle ==
  \A r1, r2 \in Requests :
    r1 # r2 /\ req[r1].to = req[r2].uuid /\ req[r2].to = req[r1].uuid =>
      ~(/\ C23_HoldsAndWaits(r1) /\ rowLock[req[r1].to] = r2
        /\ C23_HoldsAndWaits(r2) /\ rowLock[req[r2].to] = r1)

\* The place of request r among the COMMITs executed so far.
CommitIndex(r) == CHOOSE i \in DOMAIN commitOrder : commitOrder[i].request = r
CommitInstant(r) == commitOrder[CommitIndex(r)].instant

C24_AppendOnly ==
  \/ currency_transactions' = currency_transactions
  \/ \E record \in {LastRecord} : currency_transactions' = Append(currency_transactions, record)

\* When a mutation appends its record, every mutation of the same account
\* whose record is in the log already had committed before it.
C24_AppendedInCommitOrder ==
  \A r1, r2 \in Requests :
    /\ Mutation(r1) /\ Mutation(r2) /\ req[r1].uuid = req[r2].uuid
    /\ Appends(r1) /\ appended[r2] > 0
    => CommitIndex(r2) < CommitIndex(r1)

\* C24: for any two committed mutations of one account (pay as sender,
\* deposit, withdraw), their records enter the append-only log in the order
\* in which their transactions committed, in every interleaving.
C24_LogInCommitOrder == [][C24_AppendOnly /\ C24_AppendedInCommitOrder]_vars

\* C25: for each account, no two successful daily claims commit within the
\* same reset window, the window of a claim being that of the instant at
\* which its transaction commits; a claim that waits for the account's row
\* lock across a reset boundary included.
C25_OneCommitPerWindow ==
  \A uuid \in Claimers :
    \A r1, r2 \in Claims(uuid) :
      r1 # r2 /\ committed[r1] /\ committed[r2] =>
        WindowOf(CommitInstant(r1)) # WindowOf(CommitInstant(r2))

\* Daily claim r has been found ineligible.
C26_Rejected(r) ==
  req[r].kind = "daily" /\ (pc[r] = "reject" \/ (Done(r) /\ resp[r].status = 429))

\* Nothing of a rejected claim's transaction was committed or logged, and
\* it has no row version of its own to commit.
C26_RejectedWroteNothing ==
  \A r \in Requests :
    C26_Rejected(r) =>
      /\ ~committed[r] /\ appended[r] = 0
      /\ writes[r] = EmptyWrites /\ claimWrite[r] = {}

\* The step that answers 429 changes no stored row and no log record.
C26_RejectStep ==
  \A r \in Requests :
    req[r].kind = "daily" /\ pc[r] = "reject" /\ pc'[r] # "reject" =>
      /\ Done(r)' /\ resp'[r].status = 429 /\ ~inTx'[r]
      /\ user_funds' = user_funds
      /\ daily_rewards' = daily_rewards
      /\ currency_transactions' = currency_transactions

\* C26: a daily claim rejected as already claimed (429) leaves the account's
\* balance, its last_claim_at and the transaction log unchanged.
C26_RejectChangesNothing == []C26_RejectedWroteNothing /\ [][C26_RejectStep]_vars

\* C26's case: after a successful claim, a second claim of the account has
\* been answered 429; the account holds one reward and the first claim's
\* timestamp.
C26_Witness ==
  \E r1, r2 \in Claims("a") :
    /\ Succeeded(r1) /\ Done(r2) /\ resp[r2].status = 429
    /\ user_funds["a"] = bal0["a"] + DAILY_REWARD_AMOUNT
    /\ daily_rewards["a"] = req[r1].now
    /\ currency_transactions = <<>>

\* The reported "${hours}h ${minutes}m" as a number of minutes.
C27_Figure(wait) == wait[1] * 60 + wait[2]

\* Two rejected claims of one account in one reset window, the first earlier.
C27_RejectedPair(r1, r2) ==
  /\ req[r1].kind = "daily" /\ req[r2].kind = "daily" /\ req[r1].uuid = req[r2].uuid
  /\ Done(r1) /\ resp[r1].status = 429
  /\ Done(r2) /\ resp[r2].status = 429
  /\ WindowOf(req[r1].now) = WindowOf(req[r2].now)
  /\ req[r1].now < req[r2].now

\* C27 as stated: the remaining time reported to the later of two rejected
\* claims of a window is strictly smaller than that reported to the earlier.
C27_StrictlyDecreasing ==
  \A r1, r2 \in Requests :
    C27_RejectedPair(r1, r2) => C27_Figure(resp[r2].wait) < C27_Figure(resp[r1].wait)

\* C27: for two rejected daily claims of one account in one reset window at
\* instants now1 < now2, the remaining time reported at now2 (hours and
\* minutes until the next boundary, floored) is never larger than the one
\* reported at now1, is strictly smaller when now2 is a minute or more after
\* now1, and is the floor of the time left until the next boundary.
C27_NeverIncreasing ==
  /\ \A r1, r2 \in Requests :
       C27_RejectedPair(r1, r2) =>
         /\ C27_Figure(resp[r2].wait) <= C27_Figure(resp[r1].wait)
         /\ req[r2].now - req[r1].now >= SecondsPerMinute =>
              C27_Figure(resp[r2].wait) < C27_Figure(resp[r1].wait)
  /\ \A r \in Requests :
       req[r].kind = "daily" /\ Done(r) /\ resp[r].status = 429 =>
         LET left == WindowOf(req[r].now) + SecondsPerDay - req[r].now IN
           /\ resp[r].wait[2] \in 0 .. 59
           /\ C27_Figure(resp[r].wait) * SecondsPerMinute <= left
           /\ left < (C27_Figure(resp[r].wait) + 1) * SecondsPerMinute

\* C27's case: a claim rejected one second after the reset was told 23h 59m,
\* and one rejected a minute later 23h 58m.
C27_Witness ==
  \E r1, r2 \in Requests :
    /\ C27_RejectedPair(r1, r2)
    /\ req[r2].now = req[r1].now + SecondsPerMinute
    /\ resp[r1].wait = <<23, 59>> /\ resp[r2].wait = <<23, 58>>

\* The seconds since local midnight of an instant.
C28_TimeOfDay(instant) == instant % SecondsPerDay

\* The boundary the handler of request r computed from its instant.
C28_Computed(r) == req[r].kind = "daily" /\ req[r].uuid # "" /\ pc[r] # "idle"

\* C28: for every instant now, the computed reset boundary lies at
\* 06:30:00.000 local time and satisfies boundary <= now < boundary + 1 day:
\* it is today's 06:30 when now is at or after today's 06:30 and yesterday's
\* 06:30 otherwise.
C28_BoundaryOfInstant ==
  \A r \in Requests :
    C28_Computed(r) =>
      LET now == req[r].now
          boundary == local[r].lastReset
          today == now - C28_TimeOfDay(now) IN
        /\ C28_TimeOfDay(boundary) = 6 * 3600 + 30 * 60
        /\ boundary <= now /\ now < boundary + SecondsPerDay
        /\ C28_TimeOfDay(now) >= 6 * 3600 + 30 * 60 => boundary - today = 6 * 3600 + 30 * 60
        /\ C28_TimeOfDay(now) < 6 * 3600 + 30 * 60 => today - boundary = 24 * 3600 - (6 * 3600 + 30 * 60)

\* C28's case: the boundary has been computed for an instant before 06:30
\* (midnight) and for one at or after 06:30 of the same day.
C28_Witness ==
  \E r1, r2 \in Requests :
    /\ C28_Computed(r1) /\ C28_Computed(r2)
    /\ C28_TimeOfDay(req[r1].now) = 0 /\ local[r1].lastReset = req[r1].now - 17 * 3600 - 30 * 60
    /\ req[r2].now = req[r1].now + 6 * 3600 + 30 * 60 /\ local[r2].lastReset = req[r2].now

\* The step is a check of the mob limit by request r.
C29_Checks(r) == pc[r] = "idle" /\ req'[r].kind = "mobLimitCheck" /\ resp'[r].status = 200

\* The flag row of the account holds the date.
C29_Flagged(rows, uuid, date) == uuid \in DOMAIN rows /\ rows[uuid] = date

C29_CheckReadsFlag ==
  \A r \in Requests :
    C29_Checks(r) =>
      /\ resp'[r].limitReached <=> C29_Flagged(mob_limit_reached, req'[r].uuid, DateOf(clock))
      /\ mob_limit_reached' = mob_limit_reached
      /\ user_funds' = user_funds

\* A mark changes no balance, and no check result of another account on
\* any date.
C29_MarkFrame ==
  \A r \in Requests :
    C16_Marks(r) =>
      /\ user_funds' = user_funds
      /\ \A u \in Uuids \ {req'[r].uuid}, d \in 0 .. MaxDay :
           C29_Flagged(mob_limit_reached', u, d) <=> C29_Flagged(mob_limit_reached, u, d)

\* Requests are served in the order of their indices: a check returns true
\* exactly when the account was marked earlier on the date of the check.
C29_TrueIffMarkedToday ==
  \A r2 \in Requests :
    C16_Checked(r2) =>
      (resp[r2].limitReached <=>
         \E r1 \in Requests :
           /\ r1 < r2 /\ C16_Marked(r1) /\ req[r1].uuid = req[r2].uuid
           /\ DateOf(req[r1].now) = DateOf(req[r2].now))

\* C29: the mob-limit check returns limitReached = true for an account if
\* and only if the account's flag row holds the current date: after a mark
\* on day D it returns true for the rest of day D and false on every later
\* day until the account is marked again, and a mark of one account changes
\* neither the check result of another account nor any balance.
C29_LimitOfTheDay ==
  /\ []C29_TrueIffMarkedToday
  /\ [][C29_CheckReadsFlag /\ C29_MarkFrame]_vars

\* C29's case: account "a" was marked on day D; a check of "a" on day D
\* returned true, and a check of "a" on a later day returned false.
C29_Witness ==
  \E r1, r2, r3 \in Requests :
    /\ r1 < r2 /\ r2 < r3
    /\ C16_Marked(r1) /\ req[r1].uuid = "a"
    /\ C16_Checked(r2) /\ req[r2].uuid = "a" /\ DateOf(req[r2].now) = DateOf(req[r1].now)
    /\ resp[r2].limitReached
    /\ C16_Checked(r3) /\ req[r3].uuid = "a" /\ DateOf(req[r3].now) > DateOf(req[r1].now)
    /\ ~resp[r3].limitReached

====
